---- MODULE Spec2Model ----
(***************************************************************************)
(* State machine of the Cupid's Arrow Runner game                          *)
(* (src/src/components/CupidGame.tsx, the component that starts at line    *)
(* 1125 of the file; the two earlier copies in the file are older          *)
(* revisions).                                                             *)
(*                                                                         *)
(* Units.  Time is counted in physics frames (FRAME_MS = 1000/110 ms), so  *)
(* the per-tick factor dt is an integer.  Horizontal positions of the      *)
(* player, the boss, projectiles and arrows are kept in 1/100 px; the boss *)
(* shoot cooldown in 1/100 frame (its reset value is fractional).          *)
(*                                                                         *)
(* Abstractions.                                                           *)
(*  - Vertical coordinates (player.y, gapY, boss.y = h/2 + sin(phase)...,  *)
(*    projectile and arrow y) are driven by real-valued physics and sin(): *)
(*    the outcome of every vertical comparison is an input of Tick.  The   *)
(*    player keeps the zone of y ("mid", "ceil" = clamped to 0, "below" =  *)
(*    under the floor) and the kind of vy ("rest" = 0, "flap" = FLAP_EFF,  *)
(*    "free" = any other value).                                           *)
(*  - A pillar's x is kept as its zone relative to the player's box:       *)
(*    "ahead", "over" (the inset box overlaps it horizontally), "clear"    *)
(*    (overlap ended, right edge not yet left of the player), "behind"     *)
(*    (p.x + p.width < player.x).  Pillars are 250 px apart and scroll at  *)
(*    most speed*DT_CAP = 12 px per tick, so only the first pillar that is *)
(*    not behind can leave "ahead", and "over" (72 px wide) is never       *)
(*    skipped.                                                             *)
(*  - frameRef, boss.timer, boss.phase, windZones and explodePos feed only *)
(*    sin() and the renderer and are left out.                             *)
(***************************************************************************)
EXTENDS Integers, Sequences, FiniteSets, TLC

\* ------------------------------------------------------------------------
\* Program constants
\* ------------------------------------------------------------------------
PLAYER_SIZE == 32
PILLAR_WIDTH == 52
\* 0.20 px per frame^2, in 1/100 px
GRAVITY == 20
\* -5 px per frame, in 1/10 px
FLAP_STRENGTH == 0 - 50
HITBOX_INSET == 6
BOSS_SIZE == 48
MEGA_BOSS_SIZE == 64
PROJECTILE_SIZE == 20
ARROW_SIZE == 14
ARROW_SPEED == 5
BOSS_SHOOT_INTERVAL == 78
MEGA_BOSS_SHOOT_INTERVAL == 52
MEGA_BOSS_HP == 3
PLAYER_ARROW_INTERVAL == 80
\* 0.34 px per frame, in 1/100 px
BOSS_ADVANCE_SPEED == 34
DT_CAP == 6
\* Math.min(now - last, 100) ms is 11 frames of 1000/110 ms
ELAPSED_CAP == 11
\* Math.min(now - lastTimeRef.current, 100), in ms
ELAPSED_CAP_MS == 100
COUNTDOWN_STEP == 60
COUNTDOWN_START == 3
PLAYER_START_X == 80
\* generatePillars: startX
PILLAR_START_X == 500
PILLAR_SPACING == 250
BOSS_OFFSET_X == 80
HIGH_SCORE_DELAY == 3200
BOSS_INTRO_DELAY == 3200
BONUS_CTA_DELAY == 1000
GRACE_MS == 150
MEGA_LEVEL == 3

\* 1/100 px (and 1/100 frame) fixed point
Px(n) == n * 100

\* Mobile-adaptive physics: the value of each constant for m = _isMobileGame
\* (a coarse pointer).  GRAVITY_EFF in 1/100 px, FLAP_EFF and
\* RISE_GRAVITY_MULT in tenths.  The game below is explored with the desktop
\* values.
GRAVITY_EFF(m) == IF m THEN 18 ELSE GRAVITY
FLAP_EFF(m) == IF m THEN 0 - 47 ELSE FLAP_STRENGTH
DT_CAP_EFF(m) == IF m THEN 3 ELSE DT_CAP
RISE_GRAVITY_MULT(m) == IF m THEN 25 ELSE 10

\* LEVELS[lvl + 1] is the source's LEVELS[lvl]; speed in 1/100 px per frame,
\* gapSize in px
LEVELS ==
  << [pillarCount |-> 6,  speed |-> 120, heartCount |-> 4,  heartPoints |-> 2, hasBoss |-> FALSE,
      gapSize |-> 240],
     [pillarCount |-> 8,  speed |-> 140, heartCount |-> 6,  heartPoints |-> 3, hasBoss |-> FALSE,
      gapSize |-> 220],
     [pillarCount |-> 10, speed |-> 160, heartCount |-> 10, heartPoints |-> 4, hasBoss |-> TRUE,
      gapSize |-> 205],
     [pillarCount |-> 13, speed |-> 200, heartCount |-> 12, heartPoints |-> 5, hasBoss |-> TRUE,
      gapSize |-> 175] >>

NumLevels == Len(LEVELS)
Cfg(lvl) == LEVELS[lvl + 1]

\* ------------------------------------------------------------------------
\* Bounds of the exploration
\* ------------------------------------------------------------------------
\* playfield size in px (a 320 px wide phone viewport)
CanvasW == 320
\* the longest time between two ticks, in ms (beyond the 100 ms cap)
MaxElapsedMs == 120
\* the most pillars and the largest heart count generateHearts is applied to
MaxPillars == 4
MaxHearts == 5
CanvasH == 500
\* real time between two animation frames, in physics frames
ElapsedSet == {6, 11}
\* the pickup is explored for the first hearts of a level, up to this index,
MaxHeartIdx == 1
\* on the levels before the bonus level
HeartLevels == 0..(MEGA_LEVEL - 1)
\* a new game instance is explored when the session best is at most this
MaxRemountBest == 1
\* ticks per boss fight in which an arrow in horizontal reach of the boss
\* misses it vertically
MaxMisses == 1
\* the next level is explored with at most this many heart points gained
MaxCarried == 0

\* a function applied on its own gets lengths up to this many px on either
\* side of the edges its comparisons are about
NearPx == 1
\* a function applied on its own gets time factors dt in steps of 1/DtDen frame
DtDen == 2
\* and a player that has been under gravity for up to this many frames since
\* its flap
MaxLead == 12
\* Math.random() is drawn from the multiples of 1/RandDen in [0, 1)
RandDen == 4
\* and player positions of a regular boss fight up to this many steps of
\* 60 frames after the fight began
MaxAdvance == 6

Min(a, b) == IF a < b THEN a ELSE b
Max(a, b) == IF a > b THEN a ELSE b
Abs(a) == IF a < 0 THEN -a ELSE a

\* resizeCanvas: w = Math.min(rect.width, 700)
ResizeCanvasW(rectWidth) == Min(rectWidth, 700)

\* resizeCanvas: h = Math.min(rect.height - 60, 600)
ResizeCanvasH(rectHeight) == Min(rectHeight - 60, 600)

VARIABLES
  mounted,            \* the component instance exists
  sessionBestScore,   \* module-level best score
  screen,             \* screenRef
  uiScreen,           \* React state `screen` (selects the overlay)
  level,              \* levelRef
  score,              \* scoreRef
  bestScore,          \* bestScoreRef
  levelStartScore,    \* levelStartScoreRef
  bossStartScore,     \* bossStartScoreRef
  countdown,          \* countdownRef
  countdownTimer,     \* countdownTimerRef
  hasFlapped,         \* hasFlappedRef
  diedDuringBoss,     \* diedDuringBossRef
  newHighScore,       \* newHighScoreRef
  highScoreAnimating, \* React state
  showBonusCta,       \* React state
  explodeTimer,       \* explodeTimerRef
  player,             \* playerRef: [x, y, vy]
  pillars,            \* pillarsRef: sequence of [zone, passed]
  hearts,             \* heartsRef: sequence of [pillar, collected]
  boss,               \* bossRef: <<>> is null, else <<[x, health, maxHealth, shootCooldown]>>
  projectiles,        \* projectilesRef: sequence of x
  playerArrows,       \* playerArrowsRef: sequence of x
  arrowCooldown,      \* arrowCooldownRef
  rafRef,             \* "pending" while an animation frame is requested
  hsTimers,           \* pending high-score setTimeout callbacks, oldest first
  bossIntroTimers,    \* pending boss-intro setTimeout callbacks
  bonusTimers,        \* pending bonus-CTA setTimeout callbacks: "own" or "orphan"
  sincePlay,          \* frames of real time since the countdown ended (saturating)
  canvasSize,         \* canvasSizeRef: [w, h] in px
  calc,               \* arguments and result of a function applied on its own
  fireworks,          \* number of triggerVictoryFireworks() calls of this instance
  misses,             \* arrow misses of this boss fight (exploration bound)
  maxReached,         \* history: highest running score of any instance
  baselines,          \* history: level-start baseline stored for each level of this instance
  celebrations        \* history: high-score animations started in this browser session:
                      \* "none", "once" or "again"

scoreVars == <<score, bestScore, sessionBestScore, levelStartScore, bossStartScore,
               newHighScore, maxReached, baselines>>
simVars == <<player, pillars, hearts, boss, projectiles, playerArrows, arrowCooldown,
             misses>>
flowVars == <<screen, uiScreen, level, countdown, countdownTimer, hasFlapped,
              diedDuringBoss, explodeTimer, sincePlay>>
uiVars == <<highScoreAnimating, showBonusCta, fireworks>>
timerVars == <<rafRef, hsTimers, bossIntroTimers, bonusTimers, celebrations>>
vars == <<mounted, canvasSize, calc, scoreVars, simVars, flowVars, uiVars, timerVars>>

Screens == {"countdown", "playing", "levelComplete", "gameOver",
            "bossIntro", "bossFreeze", "bossExplode", "victory"}

\* ------------------------------------------------------------------------
\* Generators
\* ------------------------------------------------------------------------
\* faulty variant of GeneratePillars: the pillars start out passed
GeneratePillarsPassed(cfg) ==
  [i \in 1..cfg.pillarCount |-> [zone |-> "behind", passed |-> TRUE]]

\* generatePillars: pillarCount pillars, all to the right of the player
GeneratePillars(cfg) ==
  [i \in 1..cfg.pillarCount |-> [zone |-> "ahead", passed |-> FALSE]]

\* The index sets the shuffle of generateHearts is explored with: the first
\* or the last min(count, n) pillars.
HeartChoices(n, count) ==
  LET k == Min(count, n) IN { 1..k, (n - k + 1)..n }

RECURSIVE SortedSeq(_)
SortedSeq(S) ==
  IF S = {} THEN <<>>
  ELSE LET m == CHOOSE x \in S : \A y \in S : x <= y
       IN <<m>> \o SortedSeq(S \ {m})

\* generateHearts for one outcome `sel` of the shuffle: one heart per
\* selected pillar, in pillar order, not collected
GenerateHearts(sel) ==
  LET idx == SortedSeq(sel)
  IN [j \in 1..Len(idx) |-> [pillar |-> idx[j], collected |-> FALSE]]

NewBoss(lvl, w) ==
  LET isMega == lvl >= MEGA_LEVEL
  IN [x |-> Px(w - BOSS_OFFSET_X),
      health |-> IF isMega THEN MEGA_BOSS_HP ELSE 1,
      maxHealth |-> IF isMega THEN MEGA_BOSS_HP ELSE 1,
      shootCooldown |-> Px(IF isMega THEN MEGA_BOSS_SHOOT_INTERVAL ELSE BOSS_SHOOT_INTERVAL)]

StartPlayer == [x |-> Px(PLAYER_START_X), y |-> "mid", vy |-> "rest"]

\* ------------------------------------------------------------------------
\* initLevel(lvl, resetScore, bossRespawn); `s` is scoreRef at the call.
\* Leaves level, bestScore, bossStartScore, the high-score overlay, the
\* bonus button, explodeTimer and the animation frame alone.
\* ------------------------------------------------------------------------
\* faulty variant of RetryScore: every retry goes back to the level start
RetryScoreLevelStart(bossRespawn) == levelStartScore

\* faulty variant of RetryScore: a plain retry starts from zero
RetryScoreZero(bossRespawn) == IF bossRespawn THEN bossStartScore ELSE 0

\* scoreRef after a retry: the boss-encounter baseline on a boss respawn, the
\* level-start baseline otherwise
RetryScore(bossRespawn) == IF bossRespawn THEN bossStartScore ELSE levelStartScore

InitLevel(lvl, resetScore, bossRespawn, s, bl) ==
  LET cfg == Cfg(lvl) IN
  /\ player' = StartPlayer
  /\ projectiles' = <<>>
  /\ playerArrows' = <<>>
  /\ arrowCooldown' = 0
  /\ misses' = 0
  /\ hasFlapped' = FALSE
  /\ diedDuringBoss' = FALSE
  /\ newHighScore' = FALSE
  /\ bossIntroTimers' = <<>>
  /\ screen' = "countdown"
  /\ uiScreen' = "countdown"
  /\ countdown' = COUNTDOWN_START
  /\ countdownTimer' = 0
  /\ IF bossRespawn /\ cfg.hasBoss
       THEN /\ pillars' = [i \in 1..Len(pillars) |-> [zone |-> "behind", passed |-> TRUE]]
            /\ hearts' = <<>>
            /\ boss' = <<NewBoss(lvl, canvasSize.w)>>
       ELSE /\ pillars' = GeneratePillars(cfg)
            /\ \E sel \in HeartChoices(cfg.pillarCount, cfg.heartCount) :
                 hearts' = GenerateHearts(sel)
            /\ boss' = <<>>
  /\ IF resetScore
       THEN /\ score' = RetryScore(bossRespawn)
            /\ UNCHANGED levelStartScore
            /\ baselines' = bl
       ELSE /\ levelStartScore' = s
            /\ baselines' = [bl EXCEPT ![lvl] = s]
            /\ score' = s

\* ------------------------------------------------------------------------
\* Best score and screen transitions
\* ------------------------------------------------------------------------
\* faulty variant of BestAfter: the comparison is left out
BestAfterStale(s, b) == b

\* updateBestScore on running score s, best score b: the new best score
BestAfter(s, b) == IF s > b THEN s ELSE b

\* faulty variant of FlagAfter: a score equal to the best score raises the flag
FlagAfterTie(s, b, f) == IF s >= b THEN TRUE ELSE f

\* updateBestScore: newHighScoreRef afterwards (f is its value before)
FlagAfter(s, b, f) == IF s > b THEN TRUE ELSE f

\* updateBestScore: sessionBestScore afterwards (sb is its value before)
SessionAfter(s, b, sb) == IF s > b THEN s ELSE sb

\* faulty variant of RunExtra: the bonus button is offered on the last level too
RunExtraNoCheck(extra) ==
  /\ fireworks' = IF extra = "none" THEN fireworks ELSE fireworks + 1
  /\ bonusTimers' = IF extra = "bossVictory" THEN bonusTimers \cup {"own"} ELSE bonusTimers

\* the callback handed to transitionToScreen, run at once or by the timer:
\* "none", "fireworks" (handleNextLevel) or "bossVictory" (boss explosion)
RunExtra(extra) ==
  /\ fireworks' = IF extra = "none" THEN fireworks ELSE fireworks + 1
  /\ bonusTimers' = IF extra = "bossVictory" /\ level + 1 < NumLevels
                      THEN bonusTimers \cup {"own"}
                      ELSE bonusTimers

\* transitionToScreen(target, extraFn), with s, b, f the running score, best
\* score and new-high-score flag at the call
TransitionToScreen(target, extra, s, b, f) ==
  LET isNew == FlagAfter(s, b, f) IN
  /\ bestScore' = BestAfter(s, b)
  /\ sessionBestScore' = SessionAfter(s, b, sessionBestScore)
  /\ newHighScore' = isNew
  /\ screen' = target
  /\ uiScreen' = target
  /\ IF isNew
       THEN /\ highScoreAnimating' = TRUE
            /\ hsTimers' = Append(hsTimers, [extra |-> extra, delay |-> HIGH_SCORE_DELAY])
            /\ celebrations' = IF celebrations = "none" THEN "once" ELSE "again"
            /\ UNCHANGED <<fireworks, bonusTimers>>
       ELSE /\ UNCHANGED <<highScoreAnimating, hsTimers, celebrations>>
            /\ RunExtra(extra)

\* ------------------------------------------------------------------------
\* Construction: a new component instance and its mount effect
\* ------------------------------------------------------------------------
\* faulty variant of InitialBest: the session best is not read
InitialBestZero == sessionBestScore - sessionBestScore

\* bestScoreRef = useRef(sessionBestScore)
InitialBest == sessionBestScore

NoBaselines == [l \in 0..(NumLevels - 1) |-> -1]

InitGame ==
  /\ mounted = TRUE
  /\ sessionBestScore = 0
  /\ bestScore = 0
  /\ maxReached = 0
  /\ level = 0
  /\ score = 0
  /\ levelStartScore = 0
  /\ baselines = [NoBaselines EXCEPT ![0] = 0]
  /\ bossStartScore = 0
  /\ explodeTimer = 0
  /\ highScoreAnimating = FALSE
  /\ showBonusCta = FALSE
  /\ newHighScore = FALSE
  /\ canvasSize = [w |-> CanvasW, h |-> CanvasH]
  /\ player = StartPlayer
  /\ projectiles = <<>>
  /\ playerArrows = <<>>
  /\ arrowCooldown = 0
  /\ hasFlapped = FALSE
  /\ diedDuringBoss = FALSE
  /\ screen = "countdown"
  /\ uiScreen = "countdown"
  /\ countdown = COUNTDOWN_START
  /\ countdownTimer = 0
  /\ pillars = GeneratePillars(Cfg(0))
  /\ \E sel \in HeartChoices(Cfg(0).pillarCount, Cfg(0).heartCount) :
       hearts = GenerateHearts(sel)
  /\ boss = <<>>
  /\ rafRef = "pending"
  /\ hsTimers = <<>>
  /\ celebrations = "none"
  /\ bossIntroTimers = <<>>
  /\ bonusTimers = {}
  /\ sincePlay = 0
  /\ fireworks = 0
  /\ misses = 0

\* no function is applied on its own while the game runs
NoCalc == [fn |-> "none"]

Init == InitGame /\ calc = NoCalc

\* The game is opened again after it was left: fresh refs and state, then the
\* mount effect (initLevel(0, false), first animation frame requested).
Mount ==
  /\ ~mounted
  /\ sessionBestScore <= MaxRemountBest
  /\ mounted' = TRUE
  /\ bestScore' = InitialBest
  /\ level' = 0
  /\ bossStartScore' = 0
  /\ explodeTimer' = 0
  /\ highScoreAnimating' = FALSE
  /\ showBonusCta' = FALSE
  /\ canvasSize' = [w |-> CanvasW, h |-> CanvasH]
  /\ UNCHANGED calc
  /\ InitLevel(0, FALSE, FALSE, 0, NoBaselines)
  /\ rafRef' = "pending"
  /\ hsTimers' = <<>>
  /\ UNCHANGED celebrations
  /\ sincePlay' = 0
  /\ fireworks' = 0
  /\ UNCHANGED <<sessionBestScore, maxReached, bonusTimers>>

\* faulty variant of ClearNewest: the timer is not cleared
KeepPending(q) == q

\* clearTimeout(ref): the timer the ref holds is the newest pending one
ClearNewest(q) == IF q = <<>> THEN q ELSE SubSeq(q, 1, Len(q) - 1)

\* The player leaves the game: the cleanup of the mount effect
Exit ==
  /\ mounted
  /\ mounted' = FALSE
  /\ rafRef' = "null"
  /\ hsTimers' = ClearNewest(hsTimers)
  /\ UNCHANGED celebrations
  /\ bossIntroTimers' = ClearNewest(bossIntroTimers)
  /\ bonusTimers' = IF bonusTimers = {} THEN {} ELSE {"orphan"}
  /\ UNCHANGED <<canvasSize, calc, scoreVars, simVars, flowVars, uiVars>>

\* ------------------------------------------------------------------------
\* Input and overlay buttons
\* ------------------------------------------------------------------------
\* faulty variant of GraceOver: no grace window
GraceOverAtOnce == sincePlay >= 0

\* performance.now() - playStartTime >= 150 ms, with sincePlay in frames of
\* 1000/110 ms
GraceOver == sincePlay * 1000 >= GRACE_MS * 110

\* sincePlay saturates at the first whole frame count past the grace period
GraceFrames == (GRACE_MS * 110) \div 1000 + 1

\* the high-score overlay is rendered
HighScoreOverlay == highScoreAnimating

\* faulty variant of TerminalOverlay: not hidden behind the high-score overlay
TerminalOverlayUngated(target) == uiScreen = target

\* the overlay of a terminal screen (with its buttons) is rendered
TerminalOverlay(target) == uiScreen = target /\ ~highScoreAnimating

\* the bonus-level button of the victory overlay is rendered
BonusButton == TerminalOverlay("victory") /\ showBonusCta

\* the heart points in the running score of a level whose pillars are all passed
HeartGain == score - levelStartScore - Cfg(level).pillarCount

\* flap(): pointer, touch or key
Flap ==
  /\ mounted
  /\ IF screen = "playing" /\ GraceOver
       THEN /\ hasFlapped' = TRUE
            /\ player' = [player EXCEPT !.vy = "flap"]
            /\ UNCHANGED <<mounted, canvasSize, calc, scoreVars, pillars, hearts, boss,
                           projectiles, playerArrows, arrowCooldown, misses,
                           screen, uiScreen, level, countdown, countdownTimer,
                           diedDuringBoss, explodeTimer, sincePlay, uiVars, timerVars>>
       ELSE UNCHANGED vars

\* faulty variant of HandleRetry: the retry starts again at the first level
HandleRetryFirstLevel ==
  /\ mounted
  /\ TerminalOverlay("gameOver")
  /\ level' = 0
  /\ InitLevel(0, TRUE, FALSE, score, baselines)
  /\ UNCHANGED <<mounted, canvasSize, calc, bestScore, sessionBestScore, bossStartScore,
                 maxReached, explodeTimer, sincePlay, uiVars,
                 rafRef, hsTimers, celebrations, bonusTimers>>

\* handleRetry: the button of the gameOver overlay
HandleRetry ==
  /\ mounted
  /\ TerminalOverlay("gameOver")
  /\ InitLevel(level, TRUE, diedDuringBoss, score, baselines)
  /\ UNCHANGED <<mounted, canvasSize, calc, level, bestScore, sessionBestScore, bossStartScore,
                 maxReached, explodeTimer, sincePlay, uiVars,
                 rafRef, hsTimers, celebrations, bonusTimers>>

\* handleNextLevel: the button of the levelComplete overlay
HandleNextLevel ==
  /\ mounted
  /\ TerminalOverlay("levelComplete")
  /\ HeartGain <= MaxCarried
  /\ LET next == level + 1 IN
     IF next >= NumLevels
       THEN /\ TransitionToScreen("victory", "fireworks", score, bestScore, newHighScore)
            /\ UNCHANGED <<mounted, canvasSize, calc, score, levelStartScore, bossStartScore,
                           maxReached, baselines, simVars, level, countdown, countdownTimer,
                           hasFlapped, diedDuringBoss, explodeTimer, sincePlay,
                           showBonusCta, rafRef, bossIntroTimers>>
       ELSE /\ level' = next
            /\ InitLevel(next, FALSE, FALSE, score, baselines)
            /\ UNCHANGED <<mounted, canvasSize, calc, bestScore, sessionBestScore, bossStartScore,
                           maxReached, explodeTimer, sincePlay, uiVars,
                           rafRef, hsTimers, celebrations, bonusTimers>>

\* handleBonusLevel: the bonus button of the victory overlay
HandleBonusLevel ==
  /\ mounted
  /\ BonusButton
  /\ level + 1 < NumLevels
  /\ HeartGain <= MaxCarried
  /\ level' = level + 1
  /\ showBonusCta' = FALSE
  /\ InitLevel(level + 1, FALSE, FALSE, score, baselines)
  /\ UNCHANGED <<mounted, canvasSize, calc, bestScore, sessionBestScore, bossStartScore,
                 maxReached, explodeTimer, sincePlay,
                 highScoreAnimating,
                 fireworks, rafRef, hsTimers, celebrations, bonusTimers>>

\* ------------------------------------------------------------------------
\* Timer callbacks
\* ------------------------------------------------------------------------
\* faulty variant of HighScoreTimerFire: the timer stays pending after its
\* callback has run
HighScoreTimerFireAgain ==
  /\ hsTimers # <<>>
  /\ UNCHANGED <<hsTimers, celebrations>>
  /\ highScoreAnimating' = FALSE
  /\ RunExtra(Head(hsTimers).extra)
  /\ UNCHANGED <<mounted, canvasSize, calc, scoreVars, simVars, flowVars, showBonusCta,
                 rafRef, bossIntroTimers>>

\* the setTimeout callback of transitionToScreen (oldest pending one first)
HighScoreTimerFire ==
  /\ hsTimers # <<>>
  /\ hsTimers' = Tail(hsTimers)
  /\ UNCHANGED celebrations
  /\ highScoreAnimating' = FALSE
  /\ RunExtra(Head(hsTimers).extra)
  /\ UNCHANGED <<mounted, canvasSize, calc, scoreVars, simVars, flowVars, showBonusCta,
                 rafRef, bossIntroTimers>>

\* faulty variant of BossIntroTimerFire: the has-flapped flag and the
\* player's velocity are kept
BossIntroTimerFireFlying ==
  /\ bossIntroTimers # <<>>
  /\ bossIntroTimers' = Tail(bossIntroTimers)
  /\ boss' = <<NewBoss(level, canvasSize.w)>>
  /\ player' = [player EXCEPT !.y = "mid"]
  /\ countdown' = COUNTDOWN_START
  /\ countdownTimer' = 0
  /\ screen' = "countdown"
  /\ uiScreen' = "countdown"
  /\ UNCHANGED <<mounted, canvasSize, calc, scoreVars, pillars, hearts, projectiles,
                 playerArrows, arrowCooldown, misses, level, diedDuringBoss, hasFlapped,
                 explodeTimer, sincePlay, uiVars, rafRef, hsTimers, celebrations, bonusTimers>>

\* the setTimeout callback of the boss trigger: spawn the boss, 3-2-1 again
BossIntroTimerFire ==
  /\ bossIntroTimers # <<>>
  /\ bossIntroTimers' = Tail(bossIntroTimers)
  /\ boss' = <<NewBoss(level, canvasSize.w)>>
  /\ hasFlapped' = FALSE
  /\ player' = [player EXCEPT !.vy = "rest", !.y = "mid"]
  /\ countdown' = COUNTDOWN_START
  /\ countdownTimer' = 0
  /\ screen' = "countdown"
  /\ uiScreen' = "countdown"
  /\ UNCHANGED <<mounted, canvasSize, calc, scoreVars, pillars, hearts, projectiles,
                 playerArrows, arrowCooldown, misses, level, diedDuringBoss,
                 explodeTimer, sincePlay, uiVars, rafRef, hsTimers, celebrations, bonusTimers>>

\* setTimeout(() => setShowBonusCta(true), 1000); a callback of an instance
\* that was left ("orphan") sets the state of no mounted component
BonusTimerFire ==
  /\ \E t \in bonusTimers :
       /\ bonusTimers' = bonusTimers \ {t}
       /\ showBonusCta' = IF t = "own" THEN TRUE ELSE showBonusCta
  /\ UNCHANGED <<mounted, canvasSize, calc, scoreVars, simVars, flowVars,
                 highScoreAnimating, fireworks, rafRef, hsTimers, celebrations, bossIntroTimers>>

\* ------------------------------------------------------------------------
\* gameLoop: helpers of one tick
\* ------------------------------------------------------------------------
\* dt = min(min(now - last, 100 ms) / FRAME_MS, DT_CAP) for e frames of real time
Dt(e) == Min(Min(e, ELAPSED_CAP), DT_CAP)

IsMega(lvl) == lvl >= MEGA_LEVEL
BossSizeOf(lvl) == IF IsMega(lvl) THEN MEGA_BOSS_SIZE ELSE BOSS_SIZE

Zones == <<"ahead", "over", "clear", "behind">>
ZoneIdx(z) == CHOOSE k \in 1..4 : Zones[k] = z

\* the first pillar that is not behind the player, 0 if there is none
FrontIdx(ps) ==
  IF \A i \in 1..Len(ps) : ps[i].zone = "behind" THEN 0
  ELSE CHOOSE i \in 1..Len(ps) :
         /\ ps[i].zone # "behind"
         /\ \A j \in 1..(i - 1) : ps[j].zone = "behind"

\* the scroll inputs a tick may see: the front pillar moves on by sc zones;
\* from "ahead" it cannot jump over "over"
ScrollOk(ps, sc) ==
  LET f == FrontIdx(ps) IN
  IF f = 0 THEN sc = 0
  ELSE /\ ZoneIdx(ps[f].zone) + sc <= 4
       /\ (ps[f].zone = "ahead" => sc <= 1)

\* p.x -= cfg.speed * dt for every pillar
Scroll(ps, sc) ==
  LET f == FrontIdx(ps) IN
  IF f = 0 THEN ps ELSE [ps EXCEPT ![f].zone = Zones[ZoneIdx(@) + sc]]

\* !p.passed && p.x + p.width < player.x
PassesNow(p) == ~p.passed /\ p.zone = "behind"

\* faulty variant of MarkPassed: the flag is not set
MarkNothing(ps) == ps

\* pillar passing: p.passed = true for each pillar that passes now
MarkPassed(ps) ==
  [i \in 1..Len(ps) |-> IF PassesNow(ps[i]) THEN [ps[i] EXCEPT !.passed = TRUE] ELSE ps[i]]

\* the number of pillars that pass now (+1 each)
PassCount(ps) == Cardinality({i \in 1..Len(ps) : PassesNow(ps[i])})

\* a heart lies at the gap centre of its pillar: the player's centre can be
\* within PLAYER_SIZE/2 + HEART_SIZE/2 of it only while that pillar overlaps
\* the player's box
HeartInReach(ht, ps) == ~ht.collected /\ ps[ht.pillar].zone = "over"

\* heart collection; grab is the outcome of the distance test for a heart in
\* horizontal reach
CollectHearts(hs, ps, grab) ==
  [j \in 1..Len(hs) |->
     IF grab /\ HeartInReach(hs[j], ps) THEN [hs[j] EXCEPT !.collected = TRUE] ELSE hs[j]]

CollectCount(hs, ps, grab) ==
  IF grab THEN Cardinality({j \in 1..Len(hs) : HeartInReach(hs[j], ps)}) ELSE 0

\* the inset hitbox overlaps a pillar horizontally
PillarOverlap(ps) == \E i \in 1..Len(ps) : ps[i].zone = "over"

\* faulty variant of AllPillarsPassed: some() in place of every()
AnyPillarPassed(ps) == \E i \in 1..Len(ps) : ps[i].passed

AllPillarsPassed(ps) == \A i \in 1..Len(ps) : ps[i].passed

\* faulty variant of AdvancePlayer: the player advances on the mega boss too
AdvancePlayerAlways(x, lvl, dt) == x + BOSS_ADVANCE_SPEED * dt

\* player.x += BOSS_ADVANCE_SPEED * dt (regular boss only)
AdvancePlayer(x, lvl, dt) == IF IsMega(lvl) THEN x ELSE x + BOSS_ADVANCE_SPEED * dt

\* faulty variant of AdjustedInterval: the interval falls as the player gets
\* closer
AdjustedIntervalFalling(bossX, playerX) ==
  LET totalDist == bossX - Px(BOSS_SIZE) \div 2 - Px(PLAYER_START_X + PLAYER_SIZE)
      currentDist == bossX - Px(BOSS_SIZE) \div 2 - (playerX + Px(PLAYER_SIZE))
      clamped == Max(0, Min(totalDist, currentDist))
  IN Px(BOSS_SHOOT_INTERVAL) + (2 * Px(BOSS_SHOOT_INTERVAL) * clamped) \div totalDist

\* adjustedInterval = shootInterval * (1 + closeness * 2) in 1/100 frame,
\* closeness = 1 - clamp(currentDist / totalDist, 0, 1); totalDist > 0 on
\* every playfield wider than 216 px
AdjustedInterval(bossX, playerX) ==
  LET totalDist == bossX - Px(BOSS_SIZE) \div 2 - Px(PLAYER_START_X + PLAYER_SIZE)
      currentDist == bossX - Px(BOSS_SIZE) \div 2 - (playerX + Px(PLAYER_SIZE))
      clamped == Max(0, Min(totalDist, currentDist))
  IN Px(BOSS_SHOOT_INTERVAL) + (2 * Px(BOSS_SHOOT_INTERVAL) * (totalDist - clamped)) \div totalDist

\* boss.shootCooldown -= dt; a shot when it is <= 0
ShotFired(b, dt) == b.shootCooldown - Px(dt) <= 0

CooldownAfter(b, playerX, lvl, dt) ==
  IF ShotFired(b, dt)
    THEN IF IsMega(lvl) THEN Px(MEGA_BOSS_SHOOT_INTERVAL) ELSE AdjustedInterval(b.x, playerX)
    ELSE b.shootCooldown - Px(dt)

\* the projectiles pushed by a shot: one at boss.x, or two at the mega
\* boss's left edge
NewProjectiles(b, lvl, dt) ==
  IF ~ShotFired(b, dt) THEN <<>>
  ELSE IF IsMega(lvl) THEN <<b.x - Px(MEGA_BOSS_SIZE) \div 2, b.x - Px(MEGA_BOSS_SIZE) \div 2>>
  ELSE <<b.x>>

\* vx = -(cfg.speed + 2), mega boss -(cfg.speed + 2.5), in 1/100 px per frame
ProjectileVx(lvl) == -(Cfg(lvl).speed + (IF IsMega(lvl) THEN 250 ELSE 200))

\* proj.x += proj.vx * dt, then filter(p => p.x > -PROJECTILE_SIZE)
MoveProjectiles(prs, lvl, dt) ==
  LET moved == [i \in 1..Len(prs) |-> prs[i] + ProjectileVx(lvl) * dt]
      Keep(x) == x > -Px(PROJECTILE_SIZE)
  IN SelectSeq(moved, Keep)

\* |dx| of the projectile-player distance test is below the hit radius
\* (player.width/2 + PROJECTILE_SIZE/2) * 0.8
ProjectileInReach(playerX, projX) ==
  LET dx == playerX + Px(PLAYER_SIZE) \div 2 - (projX + Px(PROJECTILE_SIZE) \div 2)
  IN Abs(dx) * 10 < (Px(PLAYER_SIZE) \div 2 + Px(PROJECTILE_SIZE) \div 2) * 8

\* arrowCooldown -= dt; an arrow when it is <= 0
ArrowFired(ac, dt) == ac - dt <= 0

ArrowCooldownAfter(ac, dt) == IF ArrowFired(ac, dt) THEN PLAYER_ARROW_INTERVAL ELSE ac - dt

\* push at player.x + player.width, arrow.x += arrow.vx * dt,
\* filter(a => a.x < w + ARROW_SIZE)
MoveArrows(ars, ac, playerX, w, dt) ==
  LET pushed == IF ArrowFired(ac, dt) THEN Append(ars, playerX + Px(PLAYER_SIZE)) ELSE ars
      moved == [i \in 1..Len(pushed) |-> pushed[i] + Px(ARROW_SPEED) * dt]
      Keep(x) == x < Px(w + ARROW_SIZE)
  IN SelectSeq(moved, Keep)

\* |dx| of the arrow-boss distance test is below bossSize/2 + ARROW_SIZE/2
ArrowInReach(arrowX, bossX, lvl) ==
  Abs(arrowX - bossX) < Px(BossSizeOf(lvl)) \div 2 + Px(ARROW_SIZE) \div 2

\* playerArrows.splice(i, 1)
RemoveAt(q, i) == [k \in 1..(Len(q) - 1) |-> IF k < i THEN q[k] ELSE q[k + 1]]

\* faulty variant of HitBoss: a hit counts twice
HitBossTwice(b) == [b EXCEPT !.health = b.health - 2]

\* boss.health--
HitBoss(b) == [b EXCEPT !.health = b.health - 1]

\* faulty variant of ReachedBoss: the player has to reach the boss's centre
ReachedBossCentre(playerX, bossX) == playerX + Px(PLAYER_SIZE) >= bossX

\* playerRight >= bossLeft (regular boss)
ReachedBoss(playerX, bossX) == playerX + Px(PLAYER_SIZE) >= bossX - Px(BOSS_SIZE) \div 2

\* stillDuration + trembleDuration + swellDuration
FreezeTotal(lvl) == IF IsMega(lvl) THEN 180 + 330 + 340 ELSE 150 + 250 + 275

\* duration of the explosion
ExplodeDuration(lvl) == IF IsMega(lvl) THEN 430 ELSE 350

\* ------------------------------------------------------------------------
\* gameLoop: one animation frame.  e is the real time since the last frame;
\* the other parameters are the outcomes of the tick's vertical tests.
\* ------------------------------------------------------------------------
\* what every tick leaves alone (the next frame is requested again)
TickFrame == UNCHANGED <<mounted, canvasSize, calc, rafRef, level, levelStartScore, baselines>>

\* the elapsed times that make a difference to one call of gameLoop: past
\* DT_CAP the elapsed time is seen by the grace clock alone, until that clock
\* has saturated
ElapsedInputs ==
  IF screen = "playing" /\ sincePlay < GraceFrames THEN ElapsedSet
  ELSE {e \in ElapsedSet : e <= DT_CAP}

\* updateBestScore() for running score s, no overlay involved
UpdateBestScore(s) ==
  /\ bestScore' = BestAfter(s, bestScore)
  /\ sessionBestScore' = SessionAfter(s, bestScore, sessionBestScore)
  /\ newHighScore' = FlagAfter(s, bestScore, newHighScore)
  /\ UNCHANGED <<highScoreAnimating, hsTimers, celebrations, fireworks, bonusTimers>>

\* faulty variant of TickCountdown: the counter advances per frame, not by dt
TickCountdownFrames(e) ==
  /\ rafRef = "pending"
  /\ screen = "countdown"
  /\ LET t == countdownTimer + 1 IN
     IF t >= COUNTDOWN_STEP
       THEN /\ countdownTimer' = 0
            /\ countdown' = countdown - 1
            /\ IF countdown - 1 <= 0
                 THEN /\ hasFlapped' = FALSE
                      /\ sincePlay' = 0
                      /\ screen' = "playing"
                      /\ uiScreen' = "playing"
                 ELSE UNCHANGED <<hasFlapped, sincePlay, screen, uiScreen>>
       ELSE /\ countdownTimer' = t
            /\ UNCHANGED <<countdown, hasFlapped, sincePlay, screen, uiScreen>>
  /\ UNCHANGED <<mounted, canvasSize, calc, rafRef, level, levelStartScore, baselines>>
  /\ UNCHANGED <<score, bestScore, sessionBestScore, bossStartScore, newHighScore,
                 maxReached, simVars, diedDuringBoss, explodeTimer, uiVars,
                 hsTimers, celebrations, bossIntroTimers, bonusTimers>>

\* countdown screen
TickCountdown(e) ==
  /\ e \in ElapsedInputs
  /\ rafRef = "pending"
  /\ screen = "countdown"
  /\ LET t == countdownTimer + Dt(e) IN
     IF t >= COUNTDOWN_STEP
       THEN /\ countdownTimer' = 0
            /\ countdown' = countdown - 1
            /\ IF countdown - 1 <= 0
                 THEN /\ hasFlapped' = FALSE
                      /\ sincePlay' = 0
                      /\ screen' = "playing"
                      /\ uiScreen' = "playing"
                 ELSE UNCHANGED <<hasFlapped, sincePlay, screen, uiScreen>>
       ELSE /\ countdownTimer' = t
            /\ UNCHANGED <<countdown, hasFlapped, sincePlay, screen, uiScreen>>
  /\ TickFrame
  /\ UNCHANGED <<score, bestScore, sessionBestScore, bossStartScore, newHighScore,
                 maxReached, simVars, diedDuringBoss, explodeTimer, uiVars,
                 hsTimers, celebrations, bossIntroTimers, bonusTimers>>

\* faulty variant of TickFrozen: gravity still acts on the frozen scene
TickFrozenFalls(e) ==
  /\ rafRef = "pending"
  /\ screen \in {"bossIntro", "gameOver", "levelComplete", "victory"}
  /\ player' = [player EXCEPT !.y = "below"]
  /\ UNCHANGED <<mounted, canvasSize, calc, scoreVars, pillars, hearts, boss, projectiles,
                 playerArrows, arrowCooldown, misses, flowVars, uiVars, timerVars>>

\* bossIntro, gameOver, levelComplete, victory: the frozen scene is drawn
TickFrozen(e) ==
  /\ e \in ElapsedInputs
  /\ rafRef = "pending"
  /\ screen \in {"bossIntro", "gameOver", "levelComplete", "victory"}
  /\ UNCHANGED vars

\* faulty variant of TickIdle: the boss's cooldown runs before the first flap
TickIdleBossArmed(e) ==
  /\ rafRef = "pending"
  /\ screen = "playing"
  /\ ~hasFlapped
  /\ player' = [player EXCEPT !.y = "mid"]
  /\ boss' = IF boss = <<>> THEN boss ELSE <<[boss[1] EXCEPT !.shootCooldown = @ - Px(Dt(e))]>>
  /\ sincePlay' = Min(sincePlay + e, GraceFrames)
  /\ TickFrame
  /\ UNCHANGED <<score, bestScore, sessionBestScore, bossStartScore, newHighScore,
                 maxReached, pillars, hearts, projectiles, playerArrows,
                 arrowCooldown, misses, screen, uiScreen, countdown,
                 countdownTimer,
                 hasFlapped, diedDuringBoss, explodeTimer, uiVars,
                 hsTimers, celebrations, bossIntroTimers, bonusTimers>>

\* faulty variant of TickIdle: the pillars scroll before the first flap
TickIdleScrolling(e) ==
  /\ rafRef = "pending"
  /\ screen = "playing"
  /\ ~hasFlapped
  /\ player' = [player EXCEPT !.y = "mid"]
  /\ \E sc \in {sc \in 0..2 : ScrollOk(pillars, sc)} : pillars' = Scroll(pillars, sc)
  /\ sincePlay' = Min(sincePlay + e, GraceFrames)
  /\ TickFrame
  /\ UNCHANGED <<score, bestScore, sessionBestScore, bossStartScore, newHighScore,
                 maxReached, hearts, boss, projectiles, playerArrows,
                 arrowCooldown, misses, screen, uiScreen, countdown,
                 countdownTimer,
                 hasFlapped, diedDuringBoss, explodeTimer, uiVars,
                 hsTimers, celebrations, bossIntroTimers, bonusTimers>>

\* playing, before the first flap: the player bobs, nothing scrolls
TickIdle(e) ==
  /\ e \in ElapsedInputs
  /\ rafRef = "pending"
  /\ screen = "playing"
  /\ ~hasFlapped
  /\ player' = [player EXCEPT !.y = "mid"]
  /\ sincePlay' = Min(sincePlay + e, GraceFrames)
  /\ TickFrame
  /\ UNCHANGED <<score, bestScore, sessionBestScore, bossStartScore, newHighScore,
                 maxReached, pillars, hearts, boss, projectiles, playerArrows,
                 arrowCooldown, misses, screen, uiScreen, countdown,
                 countdownTimer,
                 hasFlapped, diedDuringBoss, explodeTimer, uiVars,
                 hsTimers, celebrations, bossIntroTimers, bonusTimers>>

\* the pillars after this tick's scroll
Scrolled(sc) == Scroll(pillars, sc)

\* faulty variant of ScoreAfter: a heart counts one point
ScoreAfterFlat(sc, grab) ==
  score + PassCount(Scrolled(sc)) + CollectCount(hearts, Scrolled(sc), grab)

\* scoreRef after pillar passing and heart collection
ScoreAfter(sc, grab) ==
  score + PassCount(Scrolled(sc))
        + Cfg(level).heartPoints * CollectCount(hearts, Scrolled(sc), grab)

\* the inset hitbox overlaps a pillar and lies outside its gap: a y above the
\* canvas or below it is outside every gap (gaps keep 50 px from both edges)
Collides(yOut, sc, hit) == PillarOverlap(Scrolled(sc)) /\ (hit \/ yOut # "mid")

\* the scroll inputs one physics tick can see
ScrollInputs == {sc \in 0..2 : ScrollOk(pillars, sc)}

\* the outcomes of the gap test: a pillar can be hit inside the canvas only
\* while the inset box overlaps it horizontally
HitInputs(yOut, sc) ==
  IF PillarOverlap(Scrolled(sc)) /\ yOut = "mid" THEN BOOLEAN ELSE {FALSE}

\* the outcomes of the heart distance test
GrabInputs(sc) ==
  IF /\ level \in HeartLevels
     /\ \E j \in 1..Min(Len(hearts), MaxHeartIdx) : HeartInReach(hearts[j], Scrolled(sc))
    THEN BOOLEAN ELSE {FALSE}

\* gravity, scroll, pillar passing and heart collection of a physics tick
MovePhysics(e, sc, grab) ==
  /\ rafRef = "pending"
  /\ screen = "playing"
  /\ hasFlapped
  /\ pillars' = MarkPassed(Scrolled(sc))
  /\ hearts' = CollectHearts(hearts, Scrolled(sc), grab)
  /\ score' = ScoreAfter(sc, grab)
  /\ maxReached' = Max(maxReached, ScoreAfter(sc, grab))
  /\ sincePlay' = Min(sincePlay + e, GraceFrames)
  /\ TickFrame
  /\ UNCHANGED <<countdown, countdownTimer, hasFlapped, showBonusCta>>

\* faulty variant of Clamped: the velocity is kept at the ceiling
ClampedRising(yOut, x) ==
  [x |-> x, y |-> IF yOut = "above" THEN "ceil" ELSE yOut, vy |-> "free"]

\* the player after the ceiling clamp (y < 0: y = 0, vy = 0)
Clamped(yOut, x) ==
  [x |-> x, y |-> IF yOut = "above" THEN "ceil" ELSE yOut,
   vy |-> IF yOut = "above" THEN "rest" ELSE "free"]

\* collision with a pillar: gameOver
TickPillarDeath(e, yOut, sc, hit, grab) ==
  /\ MovePhysics(e, sc, grab)
  /\ Collides(yOut, sc, hit)
  /\ player' = [player EXCEPT !.y = yOut, !.vy = "free"]
  /\ TransitionToScreen("gameOver", "none", ScoreAfter(sc, grab), bestScore, newHighScore)
  /\ UNCHANGED <<misses, bossStartScore, boss, projectiles, playerArrows, arrowCooldown,
                 diedDuringBoss, explodeTimer, bossIntroTimers>>

\* fully below the canvas: gameOver
TickFloorDeath(e, yOut, sc, hit, grab) ==
  /\ yOut = "below"
  /\ MovePhysics(e, sc, grab)
  /\ ~Collides(yOut, sc, hit)
  /\ player' = [player EXCEPT !.y = "below", !.vy = "free"]
  /\ diedDuringBoss' = IF boss # <<>> THEN TRUE ELSE diedDuringBoss
  /\ TransitionToScreen("gameOver", "none", ScoreAfter(sc, grab), bestScore, newHighScore)
  /\ UNCHANGED <<misses, bossStartScore, boss, projectiles, playerArrows, arrowCooldown,
                 explodeTimer, bossIntroTimers>>

\* faulty variant of Survives: the floor test does not end the tick
SurvivesFloor(yOut, sc, hit) == ~Collides(yOut, sc, hit)

\* the tick survives the collision and floor tests
Survives(yOut, sc, hit) ==
  /\ yOut # "below"
  /\ ~Collides(yOut, sc, hit)

\* faulty variant of BossDue: the level's hasBoss flag is not looked at
BossDueAnyLevel(ps) ==
  /\ AllPillarsPassed(ps)
  /\ boss = <<>>
  /\ screen # "bossIntro"

\* cfg.hasBoss && allPillarsPassed && !boss && screenRef.current !== 'bossIntro'
BossDue(ps) ==
  /\ Cfg(level).hasBoss
  /\ AllPillarsPassed(ps)
  /\ boss = <<>>
  /\ screen # "bossIntro"

\* faulty variant of TickBossTrigger: the score is not recorded
TickBossTriggerStale(e, yOut, sc, hit, grab) ==
  /\ Survives(yOut, sc, hit)
  /\ BossDue(MarkPassed(Scrolled(sc)))
  /\ MovePhysics(e, sc, grab)
  /\ player' = Clamped(yOut, player.x)
  /\ screen' = "bossIntro"
  /\ uiScreen' = "bossIntro"
  /\ bossIntroTimers' = Append(bossIntroTimers, [delay |-> BOSS_INTRO_DELAY])
  /\ UpdateBestScore(ScoreAfter(sc, grab))
  /\ UNCHANGED <<misses, boss, projectiles, playerArrows, arrowCooldown, diedDuringBoss,
                 explodeTimer, bossStartScore>>

\* boss level, every pillar passed, no boss yet: announce the boss
TickBossTrigger(e, yOut, sc, hit, grab) ==
  /\ Survives(yOut, sc, hit)
  /\ BossDue(MarkPassed(Scrolled(sc)))
  /\ MovePhysics(e, sc, grab)
  /\ player' = Clamped(yOut, player.x)
  /\ bossStartScore' = ScoreAfter(sc, grab)
  /\ screen' = "bossIntro"
  /\ uiScreen' = "bossIntro"
  /\ bossIntroTimers' = Append(bossIntroTimers, [delay |-> BOSS_INTRO_DELAY])
  /\ UpdateBestScore(ScoreAfter(sc, grab))
  /\ UNCHANGED <<misses, boss, projectiles, playerArrows, arrowCooldown, diedDuringBoss,
                 explodeTimer>>

\* faulty variant of TickLevelComplete: the hasBoss flag is not looked at
TickLevelCompleteAnyLevel(e, yOut, sc, hit, grab) ==
  /\ boss = <<>>
  /\ Survives(yOut, sc, hit)
  /\ AllPillarsPassed(MarkPassed(Scrolled(sc)))
  /\ MovePhysics(e, sc, grab)
  /\ player' = Clamped(yOut, player.x)
  /\ TransitionToScreen("levelComplete", "none", ScoreAfter(sc, grab), bestScore, newHighScore)
  /\ UNCHANGED <<misses, bossStartScore, boss, projectiles, playerArrows, arrowCooldown,
                 diedDuringBoss, explodeTimer, bossIntroTimers>>

\* level without boss, every pillar passed: levelComplete
TickLevelComplete(e, yOut, sc, hit, grab) ==
  /\ boss = <<>>
  /\ ~Cfg(level).hasBoss
  /\ Survives(yOut, sc, hit)
  /\ AllPillarsPassed(MarkPassed(Scrolled(sc)))
  /\ MovePhysics(e, sc, grab)
  /\ player' = Clamped(yOut, player.x)
  /\ TransitionToScreen("levelComplete", "none", ScoreAfter(sc, grab), bestScore, newHighScore)
  /\ UNCHANGED <<misses, bossStartScore, boss, projectiles, playerArrows, arrowCooldown,
                 diedDuringBoss, explodeTimer, bossIntroTimers>>

\* pillars still ahead, no boss: the flight goes on
TickFly(e, yOut, sc, hit, grab) ==
  /\ boss = <<>>
  /\ Survives(yOut, sc, hit)
  /\ ~AllPillarsPassed(MarkPassed(Scrolled(sc)))
  /\ MovePhysics(e, sc, grab)
  /\ player' = Clamped(yOut, player.x)
  /\ UpdateBestScore(ScoreAfter(sc, grab))
  /\ UNCHANGED <<misses, bossStartScore, boss, projectiles, playerArrows, arrowCooldown,
                 screen, uiScreen, diedDuringBoss, explodeTimer, bossIntroTimers>>

\* ------------------------------------------------------------------------
\* gameLoop: the boss fight (bossRef is not null)
\* ------------------------------------------------------------------------
\* player.x after the advance toward the boss
PlayerXAfter(dt) == AdvancePlayer(player.x, level, dt)

\* the boss after the shooting step
BossAfterShot(dt) ==
  [boss[1] EXCEPT !.shootCooldown = CooldownAfter(boss[1], PlayerXAfter(dt), level, dt)]

\* projectilesRef after shooting, movement and the off-screen filter
ProjectilesAfter(dt) ==
  MoveProjectiles(projectiles \o NewProjectiles(boss[1], level, dt), level, dt)

\* a projectile is within the hit radius of the player horizontally
ProjectileNear(dt) ==
  \E i \in 1..Len(ProjectilesAfter(dt)) :
    ProjectileInReach(PlayerXAfter(dt), ProjectilesAfter(dt)[i])

\* playerArrowsRef after auto-fire, movement and the off-screen filter
ArrowsAfter(dt) ==
  IF IsMega(level)
    THEN MoveArrows(playerArrows, arrowCooldown, PlayerXAfter(dt), canvasSize.w, dt)
    ELSE playerArrows

\* the arrows the collision loop can register as the hit of this tick; 0 is no hit
ArrowHits(dt) ==
  {0} \cup (IF IsMega(level)
              THEN {i \in 1..Len(ArrowsAfter(dt)) :
                      ArrowInReach(ArrowsAfter(dt)[i], boss[1].x, level)}
              ELSE {})

\* the outcomes of the arrow collision loop a tick can see
ArrowInputs(dt) == IF boss = <<>> THEN {} ELSE ArrowHits(dt)

\* an arrow is in horizontal reach and the collision loop registers no hit
ArrowMissed(dt, ai) == ai = 0 /\ ArrowHits(dt) # {0}

\* the boss after the arrow collision loop (at most one hit per frame)
BossAfterArrows(dt, ai) == IF ai = 0 THEN BossAfterShot(dt) ELSE HitBoss(BossAfterShot(dt))

\* the boss is defeated in this tick
Defeated(dt, ai) ==
  \/ ai # 0 /\ BossAfterArrows(dt, ai).health <= 0
  \/ ~IsMega(level) /\ ReachedBoss(PlayerXAfter(dt), boss[1].x)

\* the part of a boss-fight tick up to the projectile test
BossPhysics(e, yOut, sc, hit, grab) ==
  /\ boss # <<>>
  /\ Survives(yOut, sc, hit)
  /\ MovePhysics(e, sc, grab)
  /\ player' = Clamped(yOut, PlayerXAfter(Dt(e)))
  /\ projectiles' = ProjectilesAfter(Dt(e))
  /\ UNCHANGED <<bossStartScore, bossIntroTimers>>

\* faulty variant of TickProjectileDeath: the arrows hit before the
\* projectile test
TickProjectileDeathLate(e, yOut, sc, hit, grab) ==
  /\ BossPhysics(e, yOut, sc, hit, grab)
  /\ ProjectileNear(Dt(e))
  /\ boss' = <<IF ArrowHits(Dt(e)) # {0} THEN HitBoss(BossAfterShot(Dt(e)))
                                          ELSE BossAfterShot(Dt(e))>>
  /\ diedDuringBoss' = TRUE
  /\ TransitionToScreen("gameOver", "none", ScoreAfter(sc, grab), bestScore, newHighScore)
  /\ UNCHANGED <<misses, playerArrows, arrowCooldown, explodeTimer>>

\* a projectile hits the player: gameOver
TickProjectileDeath(e, yOut, sc, hit, grab) ==
  /\ BossPhysics(e, yOut, sc, hit, grab)
  /\ ProjectileNear(Dt(e))
  /\ boss' = <<BossAfterShot(Dt(e))>>
  /\ diedDuringBoss' = TRUE
  /\ TransitionToScreen("gameOver", "none", ScoreAfter(sc, grab), bestScore, newHighScore)
  /\ UNCHANGED <<misses, playerArrows, arrowCooldown, explodeTimer>>

\* the fight after the projectile test (no projectile is within the hit
\* radius, which a projectile in horizontal reach can still miss vertically):
\* arrows, then the defeat tests.  ai: the arrow registered as hit
TickBossFight(e, yOut, sc, hit, grab, ai) ==
  /\ BossPhysics(e, yOut, sc, hit, grab)
  /\ ArrowMissed(Dt(e), ai) => misses < MaxMisses
  /\ misses' = IF ArrowMissed(Dt(e), ai) THEN misses + 1 ELSE misses
  /\ boss' = <<BossAfterArrows(Dt(e), ai)>>
  /\ playerArrows' = IF ai = 0 THEN ArrowsAfter(Dt(e)) ELSE RemoveAt(ArrowsAfter(Dt(e)), ai)
  /\ arrowCooldown' = IF IsMega(level) THEN ArrowCooldownAfter(arrowCooldown, Dt(e))
                                       ELSE arrowCooldown
  /\ IF Defeated(Dt(e), ai)
       THEN /\ explodeTimer' = 0
            /\ screen' = "bossFreeze"
            /\ uiScreen' = "bossFreeze"
       ELSE UNCHANGED <<explodeTimer, screen, uiScreen>>
  /\ UpdateBestScore(ScoreAfter(sc, grab))
  /\ UNCHANGED diedDuringBoss

\* faulty variant of FreezeNext: the explosion is skipped
FreezeSkipsExplosion(t, lvl) == IF t >= FreezeTotal(lvl) THEN "victory" ELSE "bossFreeze"

\* the screen after a bossFreeze tick with accumulated time t
FreezeNext(t, lvl) == IF t >= FreezeTotal(lvl) THEN "bossExplode" ELSE "bossFreeze"

\* bossFreeze: still, tremble, swell, then the explosion
TickBossFreeze(e) ==
  /\ e \in ElapsedInputs
  /\ rafRef = "pending"
  /\ screen = "bossFreeze"
  /\ LET t == explodeTimer + Dt(e) IN
       /\ explodeTimer' = IF t >= FreezeTotal(level) THEN 0 ELSE t
       /\ screen' = FreezeNext(t, level)
       /\ uiScreen' = FreezeNext(t, level)
  /\ TickFrame
  /\ UNCHANGED <<score, bestScore, sessionBestScore, bossStartScore, newHighScore,
                 maxReached, simVars, countdown, countdownTimer, hasFlapped,
                 diedDuringBoss, sincePlay, uiVars, hsTimers, celebrations, bossIntroTimers, bonusTimers>>

\* bossExplode: the explosion, then victory
TickBossExplode(e) ==
  /\ e \in ElapsedInputs
  /\ rafRef = "pending"
  /\ screen = "bossExplode"
  /\ explodeTimer' = explodeTimer + Dt(e)
  /\ IF explodeTimer + Dt(e) >= ExplodeDuration(level)
       THEN /\ showBonusCta' = FALSE
            /\ TransitionToScreen("victory", "bossVictory", score, bestScore, newHighScore)
       ELSE UNCHANGED <<showBonusCta, bestScore, sessionBestScore, newHighScore, screen,
                        uiScreen, highScoreAnimating, hsTimers, celebrations, fireworks, bonusTimers>>
  /\ TickFrame
  /\ UNCHANGED <<score, bossStartScore, maxReached, simVars, countdown, countdownTimer,
                 hasFlapped, diedDuringBoss, sincePlay, bossIntroTimers>>

\* a tick of the playing screen after the first flap
TickPlaying(e) ==
  /\ e \in ElapsedInputs
  /\ rafRef = "pending"
  /\ screen = "playing"
  /\ hasFlapped
  /\ \E sc \in ScrollInputs, yOut \in {"above", "mid", "below"} :
       \E hit \in HitInputs(yOut, sc), grab \in GrabInputs(sc) :
         \/ TickPillarDeath(e, yOut, sc, hit, grab)
         \/ TickFloorDeath(e, yOut, sc, hit, grab)
         \/ TickBossTrigger(e, yOut, sc, hit, grab)
         \/ TickLevelComplete(e, yOut, sc, hit, grab)
         \/ TickFly(e, yOut, sc, hit, grab)
         \/ TickProjectileDeath(e, yOut, sc, hit, grab)
         \/ \E ai \in ArrowInputs(Dt(e)) : TickBossFight(e, yOut, sc, hit, grab, ai)

\* one call of gameLoop
Tick ==
  \E e \in ElapsedSet :
    \/ TickCountdown(e)
    \/ TickFrozen(e)
    \/ TickIdle(e)
    \/ TickBossFreeze(e)
    \/ TickBossExplode(e)
    \/ TickPlaying(e)

Next ==
  \/ Tick
  \/ Flap
  \/ HandleRetry
  \/ HandleNextLevel
  \/ HandleBonusLevel
  \/ HighScoreTimerFire
  \/ BossIntroTimerFire
  \/ BonusTimerFire
  \/ Exit
  \/ Mount

Spec == Init /\ [][Next]_vars

\* a tick of the countdown screen
CountdownTick == \E e \in ElapsedSet : TickCountdown(e)

\* requestAnimationFrame: the frame a countdown tick requests is eventually run
LiveSpec == Init /\ [][Next]_vars /\ WF_vars(CountdownTick)

\* a tick of a regular boss fight after the first flap
FightTick ==
  /\ screen = "playing"
  /\ hasFlapped
  /\ boss # <<>>
  /\ ~IsMega(level)
  /\ \E e \in ElapsedSet : TickPlaying(e)

\* requestAnimationFrame: the frame a tick of the fight requests is
\* eventually run
FightSpec == Init /\ [][Next]_vars /\ WF_vars(FightTick)

\* sizes in px of the game's container after a resize event: the one the
\* game starts in, and a narrower and lower one
RectSizes == {[w |-> CanvasW, h |-> CanvasH + 60], [w |-> CanvasW - 40, h |-> CanvasH - 40]}

\* faulty variant of ResizeCanvas: the player is put back to its start
ResizeCanvasReset ==
  /\ mounted
  /\ \E rect \in RectSizes :
       canvasSize' = [w |-> ResizeCanvasW(rect.w), h |-> ResizeCanvasH(rect.h)]
  /\ player' = StartPlayer
  /\ UNCHANGED <<mounted, calc, scoreVars, pillars, hearts, boss, projectiles, playerArrows,
                 arrowCooldown, misses, flowVars, uiVars, timerVars>>

\* the resize listener of the mount effect: resizeCanvas()
ResizeCanvas ==
  /\ mounted
  /\ \E rect \in RectSizes :
       canvasSize' = [w |-> ResizeCanvasW(rect.w), h |-> ResizeCanvasH(rect.h)]
  /\ UNCHANGED <<mounted, calc, scoreVars, simVars, flowVars, uiVars, timerVars>>

\* the game in a window that is resized
ResizeNext == Next \/ ResizeCanvas

ResizeSpec == Init /\ [][ResizeNext]_vars

\* ------------------------------------------------------------------------
\* Functions applied on their own: calc holds the arguments, then the result
\* ------------------------------------------------------------------------
\* offsets from an edge, in 1/100 px: on it, the smallest length and whole
\* pixels on either side
Near == {0, 1, -1} \cup {Px(k) : k \in 1..NearPx} \cup {-Px(k) : k \in 1..NearPx}

\* faulty variant of HitsPillar: touching an edge counts as a collision
HitsPillarTouching(pl, p) ==
  /\ pl.x + Px(PLAYER_SIZE) - Px(HITBOX_INSET) >= p.x
  /\ pl.x + Px(HITBOX_INSET) <= p.x + p.width
  /\ LET topH == p.gapY - p.gapSize \div 2
         bottomY == p.gapY + p.gapSize \div 2
     IN  \/ pl.y + Px(HITBOX_INSET) <= topH
         \/ pl.y + Px(PLAYER_SIZE) - Px(HITBOX_INSET) >= bottomY

\* gameLoop, collision with pillars: the test of the player pl = [x, y]
\* against one pillar p = [x, gapY, gapSize, width], lengths in 1/100 px
HitsPillar(pl, p) ==
  /\ pl.x + Px(PLAYER_SIZE) - Px(HITBOX_INSET) > p.x
  /\ pl.x + Px(HITBOX_INSET) < p.x + p.width
  /\ LET topH == p.gapY - p.gapSize \div 2
         bottomY == p.gapY + p.gapSize \div 2
     IN  \/ pl.y + Px(HITBOX_INSET) < topH
         \/ pl.y + Px(PLAYER_SIZE) - Px(HITBOX_INSET) > bottomY

\* faulty variant of Gravity: the position moves by vy_old*dt only
GravityEuler(st, k, m) ==
  LET g == GRAVITY_EFF(m) * (IF st.vy < 0 THEN RISE_GRAVITY_MULT(m) ELSE 10) IN
  [vy |-> st.vy + g * k, y |-> st.y + 2 * st.vy * k]

\* gameLoop, gravity of one tick with dt = k/DtDen on st = [y, vy] in profile
\* m.  g in 1/1000 px, vy in 1/(1000*DtDen) px, y in 1/(2000*DtDen^2) px:
\*   vy += g*dt;  y += vy_old*dt + g*dt*(dt + 1)/2
Gravity(st, k, m) ==
  LET g == GRAVITY_EFF(m) * (IF st.vy < 0 THEN RISE_GRAVITY_MULT(m) ELSE 10) IN
  [vy |-> st.vy + g * k, y |-> st.y + 2 * st.vy * k + g * k * (k + DtDen)]

\* flap(): vy = FLAP_EFF, in the units of Gravity; y is counted from there
Flapped(m) == [vy |-> FLAP_EFF(m) * 100 * DtDen, y |-> 0]

\* the player n ticks of one frame after its flap
RECURSIVE AfterFrames(_, _)
AfterFrames(m, n) == IF n = 0 THEN Flapped(m) ELSE Gravity(AfterFrames(m, n - 1), DtDen, m)

\* a player under gravity and two time factors a, b whose sum is a time
\* factor of one tick (at most DT_CAP)
GravityInputs ==
  { [fn |-> "gravity", done |-> FALSE, mobile |-> m, st |-> AfterFrames(m, n),
     a |-> ab[1], b |-> ab[2], first |-> <<>>, parts |-> <<>>, whole |-> <<>>] :
    m \in BOOLEAN, n \in 0..MaxLead,
    ab \in {x \in (1..(DT_CAP * DtDen)) \X (1..(DT_CAP * DtDen)) : x[1] + x[2] <= DT_CAP * DtDen} }

\* gravity over a + b in one tick, and in a tick of a followed by a tick of b
ApplyGravity ==
  /\ calc.fn = "gravity"
  /\ ~calc.done
  /\ calc.a + calc.b <= DT_CAP_EFF(calc.mobile) * DtDen
  /\ LET first == Gravity(calc.st, calc.a, calc.mobile) IN
       calc' = [calc EXCEPT !.done = TRUE, !.first = first,
                            !.parts = Gravity(first, calc.b, calc.mobile),
                            !.whole = Gravity(calc.st, calc.a + calc.b, calc.mobile)]
  /\ UNCHANGED <<mounted, canvasSize, scoreVars, simVars, flowVars, uiVars, timerVars>>

\* heights in px of the game's container (min-h-screen: at least the
\* viewport's height) when the canvas is sized: phones held sideways and
\* upright, a small and a large window
RectHeights == {320, 375, 400, 560, 667, 900}

\* generatePillars, gap centre of one pillar for Math.random() = k/RandDen,
\* in 1/(2*RandDen) px:
\*   minGapY = gapSize/2 + 50;  maxGapY = canvasHeight - gapSize/2 - 50
\*   gapY = minGapY + Math.random()*(maxGapY - minGapY)
GapY(cfg, canvasHeight, k) ==
  LET minGapY == cfg.gapSize + 100
      maxGapY == 2 * canvasHeight - cfg.gapSize - 100
  IN  minGapY * RandDen + k * (maxGapY - minGapY)

\* a level, a container height and a random draw
GapYInputs ==
  { [fn |-> "gapY", done |-> FALSE, lvl |-> lvl, rectHeight |-> rh, k |-> k,
     canvasHeight |-> 0, gapY |-> 0] :
    lvl \in 0..(NumLevels - 1), rh \in RectHeights, k \in 0..(RandDen - 1) }

\* the mount effect: resizeCanvas, then initLevel generates the pillars for
\* the canvas height
ApplyGapY ==
  /\ calc.fn = "gapY"
  /\ ~calc.done
  /\ LET h == ResizeCanvasH(calc.rectHeight) IN
       calc' = [calc EXCEPT !.done = TRUE, !.canvasHeight = h,
                            !.gapY = GapY(Cfg(calc.lvl), h, calc.k)]
  /\ UNCHANGED <<mounted, canvasSize, scoreVars, simVars, flowVars, uiVars, timerVars>>

\* x of the player of a regular boss fight after n frames of advance
AdvancedX(n) == Px(PLAYER_START_X) + BOSS_ADVANCE_SPEED * n

\* frames of advance at which a shot is fired: steps of 60 frames, and the
\* frame after each
ShotFrames == UNION {{60 * k, 60 * k + 1} : k \in 0..MaxAdvance}

\* a regular boss and the player at two shots, the second one closer
IntervalInputs ==
  { [fn |-> "interval", done |-> FALSE, bossX |-> NewBoss(2, CanvasW).x,
     x1 |-> AdvancedX(n[1]), x2 |-> AdvancedX(n[2]), c1 |-> 0, c2 |-> 0] :
    n \in {m \in ShotFrames \X ShotFrames : m[1] < m[2]} }

\* the cooldown the regular boss gets at each of the two shots
ApplyInterval ==
  /\ calc.fn = "interval"
  /\ ~calc.done
  /\ calc' = [calc EXCEPT !.done = TRUE,
                          !.c1 = AdjustedInterval(calc.bossX, calc.x1),
                          !.c2 = AdjustedInterval(calc.bossX, calc.x2)]
  /\ UNCHANGED <<mounted, canvasSize, scoreVars, simVars, flowVars, uiVars, timerVars>>

\* bossFreeze: the durations of the three phases
StillDuration(lvl) == IF IsMega(lvl) THEN 180 ELSE 150
TrembleDuration(lvl) == IF IsMega(lvl) THEN 330 ELSE 250
SwellDuration(lvl) == IF IsMega(lvl) THEN 340 ELSE 275

\* bossFreeze: the phase drawn by a tick with accumulated time t
FreezePhase(t, lvl) ==
  IF t <= StillDuration(lvl) THEN "still"
  ELSE IF t <= StillDuration(lvl) + TrembleDuration(lvl) THEN "tremble"
  ELSE "swell"

\* the defeat cinematic of each boss level at its start (explodeTimerRef = 0)
CinematicInputs ==
  { [fn |-> "cinematic", lvl |-> l, screen |-> "bossFreeze", t |-> 0, dt |-> 0, at |-> 0,
     phase |-> "still"] : l \in {k \in 0..(NumLevels - 1) : Cfg(k).hasBoss} }

\* faulty variant of ApplyCinematic: the timer counts ticks
ApplyCinematicFrames ==
  /\ calc.fn = "cinematic"
  /\ calc.screen \in {"bossFreeze", "bossExplode"}
  /\ \E dt \in 1..DT_CAP :
       LET t == calc.t + 1 IN
       IF calc.screen = "bossFreeze"
         THEN calc' = [calc EXCEPT !.dt = dt, !.at = t,
                                   !.t = IF t >= FreezeTotal(calc.lvl) THEN 0 ELSE t,
                                   !.phase = FreezePhase(t, calc.lvl),
                                   !.screen = FreezeNext(t, calc.lvl)]
         ELSE calc' = [calc EXCEPT !.dt = dt, !.at = t, !.t = t,
                                   !.screen = IF t >= ExplodeDuration(calc.lvl)
                                                THEN "victory" ELSE "bossExplode"]
  /\ UNCHANGED <<mounted, canvasSize, scoreVars, simVars, flowVars, uiVars, timerVars>>

\* one tick of the bossFreeze or the bossExplode branch with time factor dt:
\* explodeTimerRef (t) and the screen afterwards, the accumulated time the
\* tick compared (at) and the phase it drew
ApplyCinematic ==
  /\ calc.fn = "cinematic"
  /\ calc.screen \in {"bossFreeze", "bossExplode"}
  /\ \E dt \in 1..DT_CAP :
       LET t == calc.t + dt IN
       IF calc.screen = "bossFreeze"
         THEN calc' = [calc EXCEPT !.dt = dt, !.at = t,
                                   !.t = IF t >= FreezeTotal(calc.lvl) THEN 0 ELSE t,
                                   !.phase = FreezePhase(t, calc.lvl),
                                   !.screen = FreezeNext(t, calc.lvl)]
         ELSE calc' = [calc EXCEPT !.dt = dt, !.at = t, !.t = t,
                                   !.screen = IF t >= ExplodeDuration(calc.lvl)
                                                THEN "victory" ELSE "bossExplode"]
  /\ UNCHANGED <<mounted, canvasSize, scoreVars, simVars, flowVars, uiVars, timerVars>>

\* a pillar of level lvl with its gap in the middle of the canvas
MidPillar(lvl, x) ==
  [x |-> x, gapY |-> Px(CanvasH) \div 2, gapSize |-> Px(Cfg(lvl).gapSize),
   width |-> Px(PILLAR_WIDTH)]

\* player positions and pillars around the four tangent positions
HitsPillarInputs ==
  LET px == Px(PLAYER_START_X)
      xs == {px + Px(PLAYER_SIZE) - Px(HITBOX_INSET) + d : d \in Near}
              \cup {px + Px(HITBOX_INSET) - Px(PILLAR_WIDTH) + d : d \in Near}
              \cup {px}
      ys(p) == {p.gapY - p.gapSize \div 2 - Px(HITBOX_INSET) + d : d \in Near}
                 \cup {p.gapY + p.gapSize \div 2 - Px(PLAYER_SIZE) + Px(HITBOX_INSET) + d :
                         d \in Near}
                 \cup {p.gapY - Px(PLAYER_SIZE) \div 2}
  IN  UNION { { [fn |-> "hitsPillar", done |-> FALSE, pl |-> [x |-> px, y |-> y],
                 p |-> MidPillar(lvl, x), hit |-> FALSE, screen |-> "playing"] :
                y \in ys(MidPillar(lvl, x)) } :
              lvl \in 0..(NumLevels - 1), x \in xs }

\* the collision branch of one tick on one pillar: a hit ends in gameOver
ApplyHitsPillar ==
  /\ calc.fn = "hitsPillar"
  /\ ~calc.done
  /\ LET hit == HitsPillar(calc.pl, calc.p) IN
       calc' = [calc EXCEPT !.done = TRUE, !.hit = hit,
                            !.screen = IF hit THEN "gameOver" ELSE "playing"]
  /\ UNCHANGED <<mounted, canvasSize, scoreVars, simVars, flowVars, uiVars, timerVars>>

\* faulty variant of TimeFactor: the device cap is not applied
TimeFactorUncapped(ms, m) == Min(ms, ELAPSED_CAP_MS) * 11

\* gameLoop, delta-time scaling: dt in 1/100 frame for ms milliseconds since
\* the last tick, in profile m.  FRAME_MS = 1000/110, so elapsed/FRAME_MS is
\* 0.11 * elapsed:
\*   elapsed = min(now - last, 100);  dt = min(elapsed / FRAME_MS, DT_CAP)
TimeFactor(ms, m) == Min(Min(ms, ELAPSED_CAP_MS) * 11, DT_CAP_EFF(m) * 100)

\* p.x -= cfg.speed * dt, lengths in 1/10000 px
ScrollOf(lvl, dt) == Cfg(lvl).speed * dt

\* a length of n px in 1/10000 px
Fine(n) == Px(n) * 100

\* the horizontal part of the collision test for a pillar with left edge x
InsetOverlap(x) ==
  /\ Fine(PLAYER_START_X + PLAYER_SIZE - HITBOX_INSET) > x
  /\ Fine(PLAYER_START_X + HITBOX_INSET) < x + Fine(PILLAR_WIDTH)

\* check pillar passing: p.x + p.width < player.x
PassedBy(x) == x + Fine(PILLAR_WIDTH) < Fine(PLAYER_START_X)

\* milliseconds between two calls of gameLoop: the same instant, displays of
\* 240, 60 and 30 Hz, the values around the desktop cap, and stalls
ElapsedMs == {0, 4, 16, 33, 54, 55, 100, MaxElapsedMs}

\* a pillar whose left edge is at the right edge of the inset hitbox (no
\* overlap yet) or up to one maximal scroll further right
PassInputs ==
  { [fn |-> "pass", mobile |-> m, lvl |-> l,
     x |-> Fine(PLAYER_START_X + PLAYER_SIZE - HITBOX_INSET) + d,
     dt |-> 0, scroll |-> 0, ticks |-> 0, overlapped |-> FALSE, passed |-> FALSE] :
    m \in BOOLEAN, l \in 0..(NumLevels - 1), d \in {0, 1, Fine(1), Fine(12)} }

\* one tick of the pillar: scroll, pass marking, then the collision test
ApplyPass ==
  /\ calc.fn = "pass"
  /\ ~calc.passed
  /\ \E ms \in ElapsedMs :
       LET dt == TimeFactor(ms, calc.mobile)
           x == calc.x - ScrollOf(calc.lvl, dt)
       IN calc' = [calc EXCEPT !.x = x, !.dt = dt, !.scroll = ScrollOf(calc.lvl, dt),
                                !.ticks = Min(calc.ticks + 1, 2),
                                !.passed = PassedBy(x),
                                !.overlapped = calc.overlapped \/ InsetOverlap(x)]
  /\ UNCHANGED <<mounted, canvasSize, scoreVars, simVars, flowVars, uiVars, timerVars>>

\* [indices[i], indices[j]] = [indices[j], indices[i]], positions from 0
SwapAt(seq, i, j) ==
  [k \in 1..Len(seq) |-> IF k = i + 1 THEN seq[j + 1] ELSE IF k = j + 1 THEN seq[i + 1] ELSE seq[k]]

\* generateHearts, the Fisher-Yates loop from position i down to 1;
\* draws[i] is Math.floor(Math.random() * (i + 1))
RECURSIVE Shuffle(_, _, _)
Shuffle(indices, i, draws) ==
  IF i <= 0 THEN indices ELSE Shuffle(SwapAt(indices, i, draws[i]), i - 1, draws)

\* indices.slice(0, end) for end >= 0
SliceTo(seq, end) == SubSeq(seq, 1, Min(end, Len(seq)))

\* the position of the least element of a sequence of numbers
LeastAt(seq) == CHOOSE k \in 1..Len(seq) :
  /\ \A l \in 1..Len(seq) : seq[k] <= seq[l]
  /\ \A l \in 1..(k - 1) : seq[l] # seq[k]

\* .sort((a, b) => a - b)
RECURSIVE SortAscending(_)
SortAscending(seq) ==
  IF seq = <<>> THEN <<>>
  ELSE LET k == LeastAt(seq) IN
       <<seq[k]>> \o SortAscending(SubSeq(seq, 1, k - 1) \o SubSeq(seq, k + 1, Len(seq)))

\* faulty variant of SelectedIndices: the selection is not sorted
SelectedUnsorted(n, count, draws) ==
  SliceTo(Shuffle([k \in 1..n |-> k - 1], n - 1, draws), Min(count, n))

\* generateHearts, the selected pillar indices (from 0) of n pillars
SelectedIndices(n, count, draws) ==
  SortAscending(SliceTo(Shuffle([k \in 1..n |-> k - 1], n - 1, draws), Min(count, n)))

\* generateHearts: one heart at the gap centre of every selected pillar
HeartsAt(ps, count, draws) ==
  LET selected == SelectedIndices(Len(ps), count, draws) IN
  [k \in 1..Len(selected) |->
     LET p == ps[selected[k] + 1] IN
     [x |-> p.x + p.width \div 2, y |-> p.gapY, collected |-> FALSE]]

\* n pillars as generatePillars places them, lengths in px; the gap centres
\* fall from pillar to pillar
PillarsAt(n) ==
  [i \in 1..n |-> [x |-> PILLAR_START_X + (i - 1) * PILLAR_SPACING,
                   gapY |-> CanvasH \div 2 + 20 * (n - i), width |-> PILLAR_WIDTH,
                   passed |-> FALSE]]

\* the outcomes of the draws of a shuffle of n indices: draws[i] in 0..i
DrawsOf(n) ==
  IF n <= 1 THEN {<<>>}
  ELSE {d \in [1..(n - 1) -> 0..(n - 1)] : \A i \in 1..(n - 1) : d[i] <= i}

\* up to MaxPillars pillars, a count below, at and above their number, and
\* every outcome of the shuffle
HeartsInputs ==
  UNION { { [fn |-> "hearts", done |-> FALSE, pillars |-> PillarsAt(n), count |-> c,
             draws |-> d, hearts |-> <<>>] : c \in 0..MaxHearts, d \in DrawsOf(n) } :
          n \in 0..MaxPillars }

ApplyHearts ==
  /\ calc.fn = "hearts"
  /\ ~calc.done
  /\ calc' = [calc EXCEPT !.done = TRUE,
                          !.hearts = HeartsAt(calc.pillars, calc.count, calc.draws)]
  /\ UNCHANGED <<mounted, canvasSize, scoreVars, simVars, flowVars, uiVars, timerVars>>

\* widths in px of the game's container (w-full max-w-[700px]) when the canvas
\* is sized: phones, a tablet, a desktop window
RectWidths == {320, 375, 400, 500, 552, 700}

\* a level and a container width
PillarsInputs ==
  { [fn |-> "pillars", done |-> FALSE, lvl |-> l, rectWidth |-> rw, w |-> 0,
     pillars |-> <<>>] : l \in 0..(NumLevels - 1), rw \in RectWidths }

\* resizeCanvas, then initLevel -> generatePillars
ApplyPillars ==
  /\ calc.fn = "pillars"
  /\ ~calc.done
  /\ calc' = [calc EXCEPT !.done = TRUE, !.w = ResizeCanvasW(calc.rectWidth),
                          !.pillars = PillarsAt(Cfg(calc.lvl).pillarCount)]
  /\ UNCHANGED <<mounted, canvasSize, scoreVars, simVars, flowVars, uiVars, timerVars>>

FnInputs ==
  HitsPillarInputs \cup GravityInputs \cup GapYInputs \cup IntervalInputs
    \cup CinematicInputs \cup PassInputs \cup HeartsInputs \cup PillarsInputs

FnInit == InitGame /\ calc \in FnInputs

FnNext ==
  \/ ApplyHitsPillar
  \/ ApplyGravity
  \/ ApplyGapY
  \/ ApplyInterval
  \/ ApplyCinematic
  \/ ApplyPass
  \/ ApplyHearts
  \/ ApplyPillars

FnSpec == FnInit /\ [][FnNext]_vars

\* ------------------------------------------------------------------------
\* Properties
\* ------------------------------------------------------------------------
Terminal == {"gameOver", "levelComplete", "victory"}

\* the defeat condition of the boss fight holds
DefeatMet ==
  /\ boss # <<>>
  /\ IF IsMega(level) THEN boss[1].health <= 0
                      ELSE ReachedBoss(player.x, boss[1].x)

C1_Step ==
  /\ (mounted /\ screen # "bossFreeze" /\ screen' = "bossFreeze")
       => (screen = "playing" /\ boss # <<>> /\ Tick /\ DefeatMet')
  /\ (screen' = "playing") => ~DefeatMet'
  /\ (mounted /\ screen = "bossFreeze")
       => /\ screen' \in {"bossFreeze", "bossExplode"}
          /\ (screen' # screen) => Tick
          /\ Tick => (screen' # screen \/ explodeTimer' > explodeTimer)
  /\ (mounted /\ screen = "bossExplode")
       => /\ screen' \in {"bossExplode", "victory", "levelComplete"}
          /\ (screen' # screen) => Tick
          /\ Tick => (screen' # screen \/ explodeTimer' > explodeTimer)

\* C1: bossFreeze is entered only from playing, by the tick in which the
\* defeat condition is met (the regular boss is reached, the mega boss's
\* health is 0), and no playing state is left with the condition met; from
\* bossFreeze the screen can only become bossExplode and from bossExplode
\* only victory or levelComplete, each change is made by a tick, every tick
\* of the cinematic advances its timer, and gameOver is never entered on
\* the way.
C1_DefeatSequence == [][C1_Step]_vars

\* the cinematic of a defeated mega boss has run to the victory screen
C1_Witness ==
  /\ screen = "victory"
  /\ IsMega(level)
  /\ DefeatMet
  /\ explodeTimer >= ExplodeDuration(level)

AllBehind(ps) == \A i \in 1..Len(ps) : ps[i].passed /\ ps[i].zone = "behind"

C2_Step ==
  /\ (mounted /\ screen = "gameOver" /\ boss # <<>> /\ screen' # "gameOver")
       => /\ HandleRetry
          /\ score' = bossStartScore
          /\ bossStartScore' = bossStartScore
          /\ level' = level
          /\ Len(pillars') = Len(pillars)
          /\ AllBehind(pillars')
          /\ hearts' = <<>>
          /\ boss' = <<NewBoss(level, canvasSize.w)>>
          /\ boss'[1].health = boss'[1].maxHealth
          /\ projectiles' = <<>>
          /\ screen' = "countdown"
          /\ countdown' = COUNTDOWN_START
  /\ (mounted /\ bossStartScore' # bossStartScore)
       => (screen' = "bossIntro" /\ screen = "playing" /\ bossStartScore' = score')
  /\ (screen' = "gameOver" /\ boss' # <<>>) => diedDuringBoss'

\* C2: a retry from a gameOver entered while a boss exists sets the score
\* to the boss-encounter baseline, which is written only by the tick that
\* triggers the encounter (so every later retry restores the same value),
\* and re-initialises the level with all pillars passed and off-screen, no
\* hearts, a fresh full-health boss and the countdown screen.
C2_BossRetry == [][C2_Step]_vars

\* the countdown of a boss respawn: the score is the encounter baseline, which
\* is not the level-start baseline
C2_Witness ==
  /\ mounted
  /\ screen = "countdown"
  /\ boss # <<>>
  /\ hearts = <<>>
  /\ score = bossStartScore
  /\ score # levelStartScore

C3_Step ==
  (mounted /\ IsMega(level) /\ boss # <<>> /\ boss' # <<>>
     /\ boss'[1].health # boss[1].health)
    => \/ /\ boss'[1].health = boss[1].health - 1
          /\ screen = "playing"
          /\ Len(playerArrows') <= Len(playerArrows)
          /\ screen' = (IF boss'[1].health = 0 THEN "bossFreeze" ELSE "playing")
       \/ /\ HandleRetry
          /\ boss'[1].health = MEGA_BOSS_HP

C3_Health ==
  (IsMega(level) /\ boss # <<>>)
    => /\ boss[1].maxHealth = MEGA_BOSS_HP
       /\ boss[1].health \in 0..MEGA_BOSS_HP
       /\ (boss[1].health = 0) <=> (screen \in {"bossFreeze", "bossExplode", "victory"})

\* C3: the mega boss has 3 health points; its health changes only by a hit,
\* which lowers it by exactly one in a tick of the playing screen (one hit per
\* tick), or by the respawn of a retry; the screen stays playing after the
\* hits that leave health 2 and 1 and becomes bossFreeze with the hit that
\* leaves 0.
C3_MegaBossHits == [][C3_Step /\ C3_Health']_vars

\* the mega boss has taken two hits and the fight goes on
C3_Witness ==
  /\ IsMega(level)
  /\ boss # <<>>
  /\ boss[1].health = 1
  /\ screen = "playing"

C4_Step ==
  /\ (mounted /\ screen = "gameOver" /\ boss = <<>> /\ screen' # "gameOver")
       => /\ HandleRetry
          /\ score' = baselines[level]
          /\ levelStartScore' = levelStartScore
          /\ baselines' = baselines
          /\ level' = level
          /\ boss' = <<>>
          /\ (level > 0) => (score' > 0)
          /\ \A l \in 0..(level - 1) : score' # baselines[l]
  /\ (mounted /\ levelStartScore' # levelStartScore) => (level' = level + 1)

C4_Baseline == mounted => levelStartScore = baselines[level]

\* C4: a retry from a gameOver entered with no boss present sets the score
\* to the baseline stored when the level was entered and leaves that baseline
\* in place (it changes only with the level); the value is positive on every
\* level after level 0 and differs from the baseline of every earlier level.
C4_PlainRetry == [][C4_Step /\ C4_Baseline']_vars

\* the countdown after a plain retry on level 1: the score is back at the
\* baseline of level 1 and the best score remembers the failed attempt
C4_Witness ==
  /\ mounted
  /\ screen = "countdown"
  /\ level = 1
  /\ boss = <<>>
  /\ score = levelStartScore
  /\ score = LEVELS[1].pillarCount
  /\ bestScore > score

C5_Step ==
  /\ (mounted /\ screen = "gameOver")
       => \/ /\ screen' = "gameOver"
             /\ UNCHANGED <<player, pillars, hearts, boss, projectiles, playerArrows,
                            score, level>>
          \/ HandleRetry
  /\ (mounted /\ screen # "gameOver" /\ screen' = "gameOver")
       => (screen = "playing" /\ hasFlapped /\ Tick)
  /\ (player'.y \in {"below", "above"}) => (screen' = "gameOver")
  /\ (mounted /\ diedDuringBoss' /\ ~diedDuringBoss) => (screen' = "gameOver")

\* C5: a tick that leaves the player below the floor, or outside the canvas
\* in a pillar, or that registers a death in the boss fight ends on the
\* gameOver screen; gameOver is entered only by a tick of the playing screen;
\* and a step taken on gameOver is either the retry or leaves the player, the
\* pillars, the hearts, the boss, the projectiles, the arrows, the score and
\* the level as they are, with the screen still gameOver.
C5_GameOverFrozen == [][C5_Step]_vars

\* gameOver in the middle of a boss fight, its overlay revealed
C5_Witness ==
  /\ mounted
  /\ screen = "gameOver"
  /\ boss # <<>>
  /\ projectiles # <<>>
  /\ TerminalOverlay("gameOver")

C6_Step ==
  /\ (mounted /\ bestScore = 0 /\ score = 0 /\ score' = 1)
       => (newHighScore' /\ bestScore' = 1)
  /\ (mounted /\ screen \notin Terminal /\ screen' \in Terminal /\ newHighScore')
       => /\ highScoreAnimating'
          /\ uiScreen' = screen'
          /\ hsTimers' # <<>>
          /\ hsTimers'[Len(hsTimers')].delay = HIGH_SCORE_DELAY
          /\ fireworks' = fireworks
          /\ bonusTimers' = bonusTimers
  /\ (mounted /\ mounted' /\ highScoreAnimating /\ highScoreAnimating')
       => UNCHANGED <<screen, uiScreen, level, score, player, pillars, hearts, boss,
                      projectiles, playerArrows, fireworks, showBonusCta>>
  /\ (mounted /\ mounted' /\ highScoreAnimating /\ ~highScoreAnimating')
       => HighScoreTimerFire

C6_Overlays ==
  /\ \A t \in Terminal : ~(HighScoreOverlay /\ TerminalOverlay(t))
  /\ (mounted /\ highScoreAnimating)
       => (screen \in Terminal /\ newHighScore /\ hsTimers # <<>>)

\* C6: with best score 0 the step that brings the score to 1 sets the
\* new-high-score flag; a terminal screen entered with the flag set freezes
\* the simulation, raises the high-score overlay and starts a 3200 ms timer
\* without running the celebration callback; while the overlay is up the
\* terminal overlay is not rendered, nothing of the game changes, and the
\* overlay comes down only when that timer fires.
C6_HighScoreOverlay == [][C6_Step /\ C6_Overlays']_vars

\* death right after the first pillar of the session: high-score overlay up
C6_Witness ==
  /\ mounted
  /\ screen = "gameOver"
  /\ level = 0
  /\ score = 1
  /\ bestScore = 1
  /\ HighScoreOverlay

NoHeartCollected == \A j \in 1..Len(hearts) : ~hearts[j].collected

C7_Step ==
  /\ (mounted /\ screen # "levelComplete" /\ screen' = "levelComplete")
       => /\ screen = "playing"
          /\ Tick
          /\ ~Cfg(level).hasBoss
          /\ \E i \in 1..Len(pillars) : ~pillars[i].passed
          /\ \A i \in 1..Len(pillars') : pillars'[i].passed
  /\ (screen' = "playing" /\ ~Cfg(level').hasBoss)
       => \E i \in 1..Len(pillars') : ~pillars'[i].passed

C7_Score ==
  (screen = "levelComplete" /\ NoHeartCollected)
    => /\ score - levelStartScore = Cfg(level).pillarCount
       /\ (level = 0) => (score = 6)

\* C7: on a level without a boss the screen becomes levelComplete by the
\* tick of the playing screen that marks the last pillar passed, and no
\* playing state of such a level is left with every pillar passed; if no
\* heart was collected the score gained in the level is its pillar count,
\* which makes the score 6 on level 0.
C7_LevelComplete == [][C7_Step /\ C7_Score']_vars

\* level 0 completed without a heart
C7_Witness ==
  /\ screen = "levelComplete"
  /\ level = 0
  /\ NoHeartCollected
  /\ score = 6

NewlyPassed == {i \in 1..Len(pillars) : ~pillars[i].passed /\ pillars'[i].passed}

NewlyCollected == {j \in 1..Len(hearts) : ~hearts[j].collected /\ hearts'[j].collected}

C8_Step ==
  (mounted /\ ~(screen \in Terminal /\ screen' = "countdown"))
    => /\ Len(pillars') = Len(pillars)
       /\ Len(hearts') = Len(hearts)
       /\ \A i \in 1..Len(pillars) : pillars[i].passed => pillars'[i].passed
       /\ \A j \in 1..Len(hearts) : hearts[j].collected => hearts'[j].collected
       /\ \A i \in NewlyPassed : pillars'[i].zone = "behind"
       /\ score' = score + Cardinality(NewlyPassed)
                         + Cfg(level).heartPoints * Cardinality(NewlyCollected)

\* C8: in every step that does not re-initialise the level (a retry or the
\* start of the next level), a passed flag or a collected flag that is set
\* stays set, a pillar is marked passed only when it is wholly left of the
\* player, and the score grows by exactly 1 for each pillar marked in the
\* step and by heartPoints for each heart collected in the step: no entity
\* is scored twice.
C8_ScoredOnce == [][C8_Step]_vars

\* in flight with a heart collected, a pillar passed and pillars to come
C8_Witness ==
  /\ screen = "playing"
  /\ \E j \in 1..Len(hearts) : hearts[j].collected
  /\ \E i \in 1..Len(pillars) : pillars[i].passed
  /\ \E i \in 1..Len(pillars) : ~pillars[i].passed

C9_Step ==
  /\ sessionBestScore' >= sessionBestScore
  /\ (sessionBestScore' # sessionBestScore) <=> (score' > sessionBestScore)
  /\ (score' > sessionBestScore) => (sessionBestScore' = score')
  /\ (~mounted /\ mounted')
       => /\ bestScore' = maxReached
          /\ score' = 0
          /\ level' = 0
          /\ levelStartScore' = 0
          /\ bossStartScore' = 0
          /\ baselines' = [NoBaselines EXCEPT ![0] = 0]

C9_Best == sessionBestScore = maxReached /\ bestScore = sessionBestScore

\* C9: the session best score never decreases, it is written exactly by the
\* steps whose running score exceeds it (and then takes that score), it
\* always equals the highest running score of any instance, and a new
\* instance starts with that value as its best score and with running
\* score, level and baselines at zero.
C9_SessionBest == [][C9_Step /\ C9_Best']_vars

\* a new instance right after its mount, with the best score of the one before
C9_Witness ==
  /\ mounted
  /\ screen = "countdown"
  /\ countdown = COUNTDOWN_START
  /\ countdownTimer = 0
  /\ sincePlay = 0
  /\ level = 0
  /\ score = 0
  /\ bestScore = 1

C10_Step ==
  /\ (~mounted)
       => \/ mounted'
          \/ UNCHANGED <<canvasSize, calc, scoreVars, simVars, flowVars, uiVars, rafRef,
                         hsTimers, celebrations, bossIntroTimers>>
  /\ (mounted /\ ~mounted') => UNCHANGED <<scoreVars, simVars, flowVars>>

C10_Cancelled ==
  (~mounted) => (rafRef = "null" /\ hsTimers = <<>> /\ bossIntroTimers = <<>>)

\* C10: leaving the game changes nothing of the simulation and leaves no
\* animation frame, no boss-intro timer and no high-score timer pending; until
\* the game is mounted again no step changes the score, the simulation, the
\* screen or the overlays.
C10_Unmount == [][C10_Step /\ C10_Cancelled']_vars

\* the game was left while the boss-intro delay was pending
C10_Witness ==
  /\ ~mounted
  /\ screen = "bossIntro"
  /\ boss = <<>>

\* C11 as stated: the victory screen is up only on the last level of the
\* catalog.
C11_Original == (screen = "victory") => (level = NumLevels - 1)

C11_Step ==
  /\ (mounted /\ screen # "victory" /\ screen' = "victory")
       => \/ /\ screen = "bossExplode"
             /\ Tick
             /\ Cfg(level).hasBoss
             /\ level' = level
             /\ explodeTimer' >= ExplodeDuration(level)
          \/ /\ screen = "levelComplete"
             /\ HandleNextLevel
             /\ level = NumLevels - 1
  /\ (mounted /\ screen = "bossExplode" /\ screen' # "bossExplode")
       => screen' = "victory"
  /\ (mounted /\ screen = "victory" /\ screen' # "victory")
       => /\ HandleBonusLevel
          /\ level' = level + 1
          /\ screen' = "countdown"
  /\ (showBonusCta' /\ ~showBonusCta)
       => (screen' = "victory" /\ level' + 1 < NumLevels)

C11_Bonus == (mounted /\ BonusButton) => (level + 1 < NumLevels /\ Cfg(level).hasBoss)

\* C11 (amended): the victory screen is entered only by the tick that
\* completes the boss explosion of a boss level, the last level or an earlier
\* one, or by the next-level action on the last level of the catalog; a
\* completed boss explosion always leads to victory, never to levelComplete;
\* the bonus button appears only on a victory that is not on the last level,
\* and victory is left only by that button, which starts the next level.
C11_Victory == [][C11_Step /\ C11_Bonus']_vars

\* victory after the boss of a level that is not the last, bonus button shown
C11_Witness ==
  /\ mounted
  /\ screen = "victory"
  /\ level + 1 < NumLevels
  /\ BonusButton

C12_Step ==
  (mounted /\ screen = "levelComplete" /\ screen' # "levelComplete")
    => /\ HandleNextLevel
       /\ level' = level + 1
       /\ score' = score
       /\ levelStartScore' = score
       /\ baselines'[level'] = score
       /\ Len(pillars') = Cfg(level').pillarCount
       /\ \A i \in 1..Len(pillars') : ~pillars'[i].passed /\ pillars'[i].zone = "ahead"
       /\ Len(hearts') = Min(Cfg(level').heartCount, Cfg(level').pillarCount)
       /\ \A j \in 1..Len(hearts') : ~hearts'[j].collected
       /\ boss' = <<>>
       /\ projectiles' = <<>>
       /\ screen' = "countdown"
       /\ countdown' = COUNTDOWN_START

\* C12: a mounted game leaves levelComplete only by the next-level action,
\* which raises the level index by one, keeps the running score and stores it
\* as the level-start baseline of the new level, generates that level's
\* pillars (none passed, all ahead) and hearts (none collected) with no boss,
\* and enters the countdown.
C12_NextLevel == [][C12_Step]_vars

\* the countdown of level 1, entered with the 6 points of level 0
C12_Witness ==
  /\ mounted
  /\ screen = "countdown"
  /\ level = 1
  /\ score = Cfg(0).pillarCount
  /\ levelStartScore = score
  /\ bestScore = score
  /\ boss = <<>>
  /\ \A i \in 1..Len(pillars) : ~pillars[i].passed

\* one countdown tick of e frames of real time
C13_Count(e) ==
  LET t == countdownTimer + Dt(e) IN
  IF t < COUNTDOWN_STEP
    THEN /\ countdownTimer' = t
         /\ countdown' = countdown
         /\ screen' = "countdown"
    ELSE /\ countdownTimer' = 0
         /\ countdown' = countdown - 1
         /\ IF countdown = 1
              THEN screen' = "playing" /\ ~hasFlapped'
              ELSE screen' = "countdown"

C13_Step ==
  /\ (screen' = "countdown" /\ (screen # "countdown" \/ ~mounted))
       => (countdown' = COUNTDOWN_START /\ countdownTimer' = 0)
  /\ (mounted /\ mounted' /\ screen = "countdown")
       => /\ UNCHANGED <<score, level, player, pillars, hearts, boss, projectiles,
                         playerArrows, diedDuringBoss>>
          /\ \/ UNCHANGED <<countdown, countdownTimer, screen>>
             \/ \E e \in ElapsedSet : Dt(e) > 0 /\ C13_Count(e)

C13_Range ==
  (screen = "countdown")
    => (countdown \in 1..COUNTDOWN_START /\ countdownTimer \in 0..(COUNTDOWN_STEP - 1))

C13_Ends == (mounted /\ screen = "countdown") ~> (screen = "playing" \/ ~mounted)

\* C13: every countdown starts at 3 with the dt counter at 0; a tick adds dt
\* to the counter and, when it reaches 60, resets it and lowers the number by
\* one, so the screen shows 3, 2, 1 in that order, and the tick that lowers
\* it to 0 switches to playing with the has-flapped flag cleared; no step on
\* the countdown screen changes the score, the player, the pillars, the
\* hearts, the boss, the projectiles or the arrows or ends in gameOver; and
\* as long as frames keep coming the countdown of a mounted game ends in
\* playing.
C13_Countdown == [][C13_Step /\ C13_Range']_vars /\ C13_Ends

\* the countdown shows 1 and its next tick starts the flight
C13_Witness ==
  /\ mounted
  /\ screen = "countdown"
  /\ countdown = 1
  /\ countdownTimer + DT_CAP >= COUNTDOWN_STEP

\* everything a flap leaves alone, whatever it does
C14_Rest ==
  UNCHANGED <<mounted, canvasSize, calc, scoreVars, pillars, hearts, boss, projectiles,
              playerArrows, arrowCooldown, screen, uiScreen, level, countdown,
              countdownTimer, diedDuringBoss, explodeTimer, sincePlay, uiVars,
              timerVars>>

\* the step is an effective flap
C14_Effect ==
  /\ screen = "playing"
  /\ sincePlay * 1000 >= GRACE_MS * 110
  /\ hasFlapped'
  /\ player' = [player EXCEPT !.vy = "flap"]
  /\ C14_Rest

C14_Step ==
  /\ (mounted /\ mounted' /\ ~hasFlapped /\ hasFlapped') => C14_Effect
  /\ (mounted /\ mounted' /\ player'.vy = "flap" /\ player.vy # "flap") => C14_Effect
  /\ Flap => (C14_Effect \/ UNCHANGED vars)
  /\ (Flap /\ (screen # "playing" \/ sincePlay * 1000 < GRACE_MS * 110))
       => UNCHANGED vars

\* C14: the has-flapped flag is raised and the upward velocity is set only
\* by a flap that arrives on the playing screen at least 150 ms after the
\* countdown ended, and that step changes nothing but the flag and the
\* velocity; a flap on any other screen or inside the grace window changes
\* no state.
C14_FlapGrace == [][C14_Step]_vars

\* the first flap of a flight has just been taken
C14_Witness ==
  /\ mounted
  /\ screen = "playing"
  /\ hasFlapped
  /\ player.vy = "flap"
  /\ \A i \in 1..Len(pillars) : pillars[i].zone = "ahead"

C15_Step ==
  /\ (mounted /\ screen # "bossIntro" /\ screen' = "bossIntro")
       => /\ screen = "playing"
          /\ Tick
          /\ Cfg(level).hasBoss
          /\ boss = <<>>
          /\ boss' = <<>>
          /\ ~AllPillarsPassed(pillars)
          /\ AllPillarsPassed(pillars')
          /\ Len(bossIntroTimers') = 1
  /\ (mounted /\ screen = "playing" /\ Cfg(level).hasBoss
        /\ ~AllPillarsPassed(pillars) /\ AllPillarsPassed(pillars'))
       => screen' \in {"bossIntro", "gameOver"}
  /\ (mounted /\ boss = <<>> /\ boss' # <<>>)
       => \/ screen = "bossIntro" /\ BossIntroTimerFire
          \/ screen = "gameOver" /\ diedDuringBoss /\ HandleRetry
  /\ (mounted /\ boss # <<>>) => screen' # "bossIntro"

C15_Boss ==
  /\ (boss # <<>>) => (Cfg(level).hasBoss /\ AllPillarsPassed(pillars))
  /\ (screen = "playing" /\ Cfg(level).hasBoss /\ AllPillarsPassed(pillars))
       => boss # <<>>
  /\ (screen = "bossIntro") => (boss = <<>> /\ Cfg(level).hasBoss)

\* C15: a boss exists only on a level flagged hasBoss whose pillars are all
\* marked passed; the boss announcement is entered only by the tick of the
\* playing screen that marks the last pillar passed, and a surviving tick
\* that marks it always enters the announcement, so no playing state has all
\* pillars passed and no boss; the boss appears only by the announcement's
\* timer or by the retry of a death in the fight, and while a boss exists
\* no announcement is entered again.
C15_BossTrigger == [][C15_Step /\ C15_Boss']_vars

\* the boss announcement is up: every pillar passed, no boss yet
C15_Witness ==
  /\ mounted
  /\ screen = "bossIntro"
  /\ boss = <<>>
  /\ AllPillarsPassed(pillars)
  /\ Len(bossIntroTimers) = 1

C16_Step ==
  (mounted /\ screen = "playing")
    => /\ screen' \in {"playing", "gameOver", "bossIntro", "bossFreeze", "levelComplete"}
       /\ uiScreen' = screen'
       /\ Len(hsTimers') + Len(bossIntroTimers') <= Len(hsTimers) + Len(bossIntroTimers) + 1
       /\ (screen' = "gameOver")
            => /\ UNCHANGED <<bossStartScore, bossIntroTimers, explodeTimer, playerArrows,
                              arrowCooldown>>
               /\ (boss = <<>>) => (boss' = <<>>)
               /\ (boss # <<>>) => (boss' # <<>> /\ boss'[1].health = boss[1].health)
       /\ (screen' = "bossIntro")
            => UNCHANGED <<hsTimers, highScoreAnimating, diedDuringBoss, explodeTimer,
                           projectiles>>
       /\ (screen' = "bossFreeze")
            => UNCHANGED <<hsTimers, highScoreAnimating, diedDuringBoss, bossStartScore,
                           bossIntroTimers>>
       /\ (screen' = "levelComplete")
            => UNCHANGED <<diedDuringBoss, bossStartScore, bossIntroTimers, explodeTimer>>
       /\ (PillarOverlap(pillars') /\ player'.y \in {"below", "above"})
            => (screen' = "gameOver" /\ diedDuringBoss' = diedDuringBoss)
       /\ (player'.y = "below")
            => /\ screen' = "gameOver"
               /\ projectiles' = projectiles
               /\ player'.x = player.x

\* C16: a step taken on the playing screen ends on exactly one of playing,
\* gameOver, bossIntro, bossFreeze and levelComplete, starts at most one
\* timer and applies the effects of that one transition only: a death
\* starts no boss announcement, no cinematic and no arrow or boss-health
\* change, an announcement or a defeat records no death and raises no
\* high-score overlay.  The earlier test wins: a box outside the canvas in a
\* pillar is a pillar death, not a floor death, and a tick that ends below the
\* floor is a gameOver even if it marks the last pillar or would reach the
\* boss, with the boss logic not run.
C16_OneTransition == [][C16_Step]_vars

\* the tick that marked the last pillar of a level without boss ended below
\* the floor: gameOver, not levelComplete
C16_Witness ==
  /\ mounted
  /\ screen = "gameOver"
  /\ ~Cfg(level).hasBoss
  /\ AllPillarsPassed(pillars)
  /\ player.y = "below"

\* ------------------------------------------------------------------------
\* C17
\* ------------------------------------------------------------------------
\* the collision test was applied to a player and a pillar
C17_Applied == calc.fn = "hitsPillar" /\ calc.done

\* edges of the player's box inset by 6 px on every side
C17_Left == calc.pl.x + Px(6)
C17_Right == calc.pl.x + Px(PLAYER_SIZE) - Px(6)
C17_Top == calc.pl.y + Px(6)
C17_Bottom == calc.pl.y + Px(PLAYER_SIZE) - Px(6)

\* edges of the pillar's gap
C17_GapTop == calc.p.gapY - calc.p.gapSize \div 2
C17_GapBottom == calc.p.gapY + calc.p.gapSize \div 2

\* the inset box and the pillar share a horizontal stretch of positive length
C17_OverlapX == C17_Right > calc.p.x /\ C17_Left < calc.p.x + calc.p.width

\* C17: the pillar collision test uses the player's box inset by 6 px on
\* every side with strict comparisons.  No collision is registered when the
\* inset top is on the gap's top edge (the bottom inside the gap), when the
\* inset bottom is on the gap's bottom edge (the top inside the gap), or when
\* an inset side is on the pillar's side; any further overlap, by the smallest
\* length or by a pixel, above the gap's top or below its bottom, while the
\* inset box overlaps the pillar horizontally, registers a collision, and a
\* registered collision is what ends in gameOver.
C17_Tangency ==
  C17_Applied =>
    /\ (C17_Top = C17_GapTop /\ C17_Bottom <= C17_GapBottom) => ~calc.hit
    /\ (C17_Bottom = C17_GapBottom /\ C17_Top >= C17_GapTop) => ~calc.hit
    /\ (C17_Right = calc.p.x \/ C17_Left = calc.p.x + calc.p.width) => ~calc.hit
    /\ (C17_OverlapX /\ C17_Top < C17_GapTop) => calc.hit
    /\ (C17_OverlapX /\ C17_Bottom > C17_GapBottom) => calc.hit
    /\ calc.hit <=> (calc.screen = "gameOver")

\* the inset top is the smallest length above the gap's top edge, the box
\* overlaps the pillar horizontally by the smallest length, and the test
\* registered the collision
C17_Witness ==
  /\ C17_Applied
  /\ C17_Top = C17_GapTop - 1
  /\ C17_Right = calc.p.x + 1
  /\ calc.hit
  /\ calc.screen = "gameOver"

\* ------------------------------------------------------------------------
\* C18
\* ------------------------------------------------------------------------
\* gravity was applied over a + b at once and over a, then b
C18_Applied == calc.fn = "gravity" /\ calc.done

\* both parts of the split use the same gravity factor g: the rise multiplier
\* is 1, or the player rises, or falls, at the start of both
C18_SameFactor ==
  \/ RISE_GRAVITY_MULT(calc.mobile) = 10
  \/ (calc.st.vy < 0) = (calc.first.vy < 0)

\* original statement of C18: for every split the two ways give the same
\* position and velocity
C18_Original == C18_Applied => (calc.whole = calc.parts)

\* C18: under pure gravity after a flap, applying the update
\* dy = v*dt + g*dt*(dt+1)/2, v += g*dt once with dt = a + b gives the same
\* position and velocity as applying it with dt = a and then with dt = b,
\* whenever both applications use the same gravity factor g (always with the
\* desktop constants; with the coarse-pointer constants as long as the first
\* part does not end the rise).
C18_SplitSame == (C18_Applied /\ C18_SameFactor) => (calc.whole = calc.parts)

\* a rising player of the coarse-pointer profile, right after its flap, whose
\* two ways of taking a + b agree
C18_Witness ==
  /\ C18_Applied
  /\ calc.mobile
  /\ calc.st = Flapped(TRUE)
  /\ calc.first.vy < 0
  /\ calc.a # calc.b
  /\ calc.whole = calc.parts

\* ------------------------------------------------------------------------
\* C19
\* ------------------------------------------------------------------------
\* a pillar's gap centre was generated for a level and a canvas height
C19_Applied == calc.fn = "gapY" /\ calc.done

\* C19: for every level configuration and every canvas height the game can
\* have, a generated pillar has gapY - gapSize/2 >= 50 and
\* gapY + gapSize/2 <= canvasHeight - 50 (lengths in 1/(2*RandDen) px).
C19_GapInside ==
  C19_Applied =>
    /\ calc.gapY - Cfg(calc.lvl).gapSize * RandDen >= 100 * RandDen
    /\ calc.gapY + Cfg(calc.lvl).gapSize * RandDen
         <= (2 * calc.canvasHeight - 100) * RandDen

\* ------------------------------------------------------------------------
\* C20
\* ------------------------------------------------------------------------
\* levelRef belongs to the component instance: a step of one instance keeps
\* or raises it, and raises it by one, in handleNextLevel or handleBonusLevel
\* only; an instance that is opened starts with its own levelRef at 0
C20_Step ==
  /\ (mounted /\ mounted') => level' >= level
  /\ (level' # level) =>
       \/ mounted /\ mounted' /\ level' = level + 1
            /\ (HandleNextLevel \/ HandleBonusLevel)
       \/ ~mounted /\ mounted' /\ level' = 0

\* the lookups LEVELS[lvl] of initLevel and of the game loop are in range
C20_Range == level \in 0..(NumLevels - 1)

\* C20: in every reachable state the level index is a valid index of the
\* level catalog (0 <= level < number of levels); in a game instance it never
\* decreases and changes only by +1, through the next-level or the bonus-level
\* action, so the catalog lookups of initLevel and of the game loop are never
\* out of range.
C20_Level == [][C20_Step /\ C20_Range']_vars

\* the bonus-level action has raised the level index to the last entry of
\* the catalog
C20_Witness ==
  /\ mounted
  /\ level = NumLevels - 1
  /\ screen = "countdown"
  /\ countdown = COUNTDOWN_START
  /\ countdownTimer = 0
  /\ ~showBonusCta
  /\ baselines[NumLevels - 1] = score

\* ------------------------------------------------------------------------
\* C21
\* ------------------------------------------------------------------------
\* this step starts the high-score animation (its 3200 ms timer is set)
C21_Started == Len(hsTimers') = Len(hsTimers) + 1

\* original statement of C21: the animation is started the first time the
\* best score is exceeded in a browser session and never again in it
C21_Original == [][C21_Started => celebrations = "none"]_vars

\* the animation starts in the step that enters a terminal screen with the
\* new-high-score flag set, and in every such step
C21_Step ==
  /\ C21_Started =>
       /\ screen' \in Terminal
       /\ screen' # screen
       /\ newHighScore'
       /\ highScoreAnimating'
       /\ mounted'
  /\ (mounted' /\ screen' \in Terminal /\ screen' # screen /\ newHighScore')
       => C21_Started

\* the flag is set only while the running score of the attempt is the best
\* score, which it has exceeded since the attempt's initLevel
C21_Flag == (mounted /\ newHighScore) => (score = bestScore /\ score > 0)

\* C21: the new-high-score animation is started once for every attempt in
\* which the best score was exceeded, in the step that ends the attempt
\* (gameOver, levelComplete or victory entered with the flag set, which
\* initLevel clears); it is started again later in the session whenever a
\* later attempt exceeds the best score again.
C21_OncePerAttempt == [][C21_Step /\ C21_Flag']_vars

\* the animation of a later attempt of the session is running
C21_Witness ==
  /\ mounted
  /\ celebrations = "again"
  /\ highScoreAnimating
  /\ hsTimers # <<>>
  /\ newHighScore
  /\ screen \in Terminal

\* ------------------------------------------------------------------------
\* C22
\* ------------------------------------------------------------------------
\* a resize event of the running game
C22_Resized == mounted /\ mounted' /\ canvasSize' # canvasSize

\* the boss of a fight that started before the window was resized is where
\* the width at its spawn put it
C22_BossStays == boss # <<>> /\ boss[1].x # Px(canvasSize.w - BOSS_OFFSET_X)

\* C22: a resize event, between any two ticks and on any screen, changes
\* only the stored playfield width and height (screen, level, score,
\* baselines, player, pillars, hearts, boss, projectiles, arrows and timers
\* are unchanged), and the new dimensions are used from the next step on: a
\* boss spawned by the boss-intro timer is placed with the width stored then.
C22_ResizeOnly ==
  [][ /\ C22_Resized =>
           /\ ResizeCanvas
           /\ UNCHANGED <<scoreVars, simVars, flowVars, uiVars, timerVars>>
      /\ BossIntroTimerFire => boss'[1].x = Px(canvasSize.w - BOSS_OFFSET_X) ]_vars

\* the window was resized during a boss fight: the boss has not moved
C22_Witness ==
  /\ mounted
  /\ screen = "playing"
  /\ hasFlapped
  /\ C22_BossStays
  /\ canvasSize.w = CanvasW - 40

\* ------------------------------------------------------------------------
\* C23
\* ------------------------------------------------------------------------
\* the cooldowns of two shots of a regular boss were computed, the second
\* shot at the smaller remaining distance
C23_Applied == calc.fn = "interval" /\ calc.done /\ calc.x1 < calc.x2

\* original statement of C23: the cooldown set at the smaller distance is
\* less than or equal to the one set at the larger distance
C23_Original == C23_Applied => calc.c2 <= calc.c1

\* C23: for the regular boss the cooldown assigned after each shot lengthens
\* as the player's remaining distance to the boss shrinks: for two shots
\* fired at remaining distances d1 > d2 the cooldown set at d2 is greater
\* than or equal to the cooldown set at d1, between BOSS_SHOOT_INTERVAL at
\* the full distance and three times that at distance 0 (shots come slower
\* as the player gets closer).
C23_Lengthens ==
  C23_Applied =>
    /\ calc.c2 >= calc.c1
    /\ calc.c1 >= Px(BOSS_SHOOT_INTERVAL)
    /\ calc.c2 <= 3 * Px(BOSS_SHOOT_INTERVAL)
    /\ (calc.x1 = Px(PLAYER_START_X)) => calc.c1 = Px(BOSS_SHOOT_INTERVAL)

\* a second shot closer to the boss got a longer cooldown than the first
C23_Witness ==
  /\ C23_Applied
  /\ calc.x1 = Px(PLAYER_START_X)
  /\ calc.c2 > calc.c1
  /\ calc.c2 < 3 * Px(BOSS_SHOOT_INTERVAL)

\* ------------------------------------------------------------------------
\* C24
\* ------------------------------------------------------------------------
\* a regular boss fight after the first flap
C24_Fight ==
  mounted /\ screen = "playing" /\ hasFlapped /\ boss # <<>> /\ ~IsMega(level)

\* the right edge of a player at x is at or beyond the boss's left edge
C24_Reached(x) == x + Px(PLAYER_SIZE) >= boss[1].x - Px(BOSS_SIZE) \div 2

\* the tick ends in floor death, which returns before the boss logic
C24_FloorDeath == screen' = "gameOver" /\ player'.y = "below" /\ player'.x = player.x

\* the player's x has grown by BOSS_ADVANCE_SPEED * dt
C24_Advanced == \E e \in ElapsedSet : player'.x = player.x + BOSS_ADVANCE_SPEED * Dt(e)

\* original statement of C24, first part: the player's x grows by
\* BOSS_ADVANCE_SPEED * dt in every physics tick of the fight
C24_Original == [][(C24_Fight /\ FightTick) => C24_Advanced]_vars

\* a tick of the fight: floor death, or the advance; after the advance the
\* screen is bossFreeze exactly if the player's right edge has reached the
\* boss's left edge and no projectile hit the player.  No other step of
\* the fight moves the player back.
C24_Step ==
  /\ (C24_Fight /\ FightTick) =>
       \/ C24_FloorDeath
       \/ /\ C24_Advanced
          /\ screen' \in {"playing", "bossFreeze", "gameOver"}
          /\ (screen' = "bossFreeze") <=>
               (C24_Reached(player'.x) /\ screen' # "gameOver")
  /\ (C24_Fight /\ C24_Fight') => player'.x >= player.x
  /\ (screen' = "bossFreeze" /\ screen # "bossFreeze" /\ ~IsMega(level))
       => (C24_Fight /\ FightTick)

\* while the fight goes on the player has not reached the boss
C24_NotYet == C24_Fight => ~C24_Reached(player.x)

\* ticks that keep coming end the fight: by the freeze, or by the player's
\* death, unless the game is left
C24_Ends == C24_Fight ~> (screen \in {"bossFreeze", "gameOver"} \/ ~mounted)

\* C24: in a regular boss fight, after the first flap, the player's x grows
\* by BOSS_ADVANCE_SPEED*dt in every physics tick that does not end in floor
\* death (that tick returns before the boss logic and leaves x), and the
\* fight ends (screen becomes bossFreeze) in the first tick in which the
\* player's right edge is at or beyond the boss's left edge and no projectile
\* hits; under continued ticks with dt > 0, and provided the player does not
\* die and the game is not left, bossFreeze is eventually reached.
C24_Advance == [][C24_Step /\ C24_NotYet']_vars /\ C24_Ends

\* the freeze was entered by reaching the regular boss
C24_Witness ==
  /\ mounted
  /\ screen = "bossFreeze"
  /\ ~IsMega(level)
  /\ explodeTimer = 0
  /\ boss # <<>>
  /\ C24_Reached(player.x)
  /\ ~C24_Reached(player.x - BOSS_ADVANCE_SPEED * DT_CAP)

\* ------------------------------------------------------------------------
\* C25
\* ------------------------------------------------------------------------
\* a tick of the playing screen of a mega-boss fight
C25_MegaTick ==
  /\ mounted
  /\ IsMega(level)
  /\ boss # <<>>
  /\ \E e \in ElapsedSet : TickPlaying(e)

\* the arrows before the filter and the collision loop of a tick with time
\* factor dt: a new one at the player's right edge if the cooldown has run
\* out, all moved by ARROW_SPEED * dt
C25_Moved(dt) ==
  LET pushed == IF arrowCooldown - dt <= 0
                  THEN Append(playerArrows, player.x + Px(PLAYER_SIZE))
                  ELSE playerArrows
  IN  [i \in 1..Len(pushed) |-> pushed[i] + Px(ARROW_SPEED) * dt]

\* the arrows of C25_Moved(dt) that are beyond the right edge of the canvas
C25_Gone(dt) ==
  {i \in 1..Len(C25_Moved(dt)) : C25_Moved(dt)[i] >= Px(canvasSize.w + ARROW_SIZE)}

\* the arrows of C25_Moved(dt) that touch the boss horizontally
C25_Touching(dt) ==
  {i \in 1..Len(C25_Moved(dt)) :
     /\ i \notin C25_Gone(dt)
     /\ Abs(C25_Moved(dt)[i] - boss[1].x) < Px(MEGA_BOSS_SIZE) \div 2 + Px(ARROW_SIZE) \div 2}

\* a mega-fight tick that reaches the arrow logic: the cooldown counts dt
\* down and is set to PLAYER_ARROW_INTERVAL when an arrow is fired; the
\* arrows afterwards are the moved ones without those beyond the right edge
\* and without the one that hit the boss, which costs the boss one health
C25_Arrows ==
  \E e \in ElapsedSet :
    LET dt == Dt(e)
        moved == C25_Moved(dt)
        hits == boss[1].health - boss'[1].health
    IN  /\ arrowCooldown' = IF arrowCooldown - dt <= 0 THEN PLAYER_ARROW_INTERVAL
                                                      ELSE arrowCooldown - dt
        /\ hits \in {0, 1}
        /\ hits = 1 => C25_Touching(dt) # {}
        /\ Len(playerArrows') = Len(moved) - Cardinality(C25_Gone(dt)) - hits
        /\ \A k \in 1..Len(playerArrows') :
             \E i \in 1..Len(moved) : i \notin C25_Gone(dt) /\ playerArrows'[k] = moved[i]

C25_Step ==
  /\ C25_MegaTick =>
       IF screen' = "gameOver"
         THEN UNCHANGED <<playerArrows, arrowCooldown>>
         ELSE C25_Arrows
  /\ (screen' = "bossFreeze" /\ screen # "bossFreeze" /\ IsMega(level)) =>
       /\ C25_MegaTick
       /\ boss[1].health = 1
       /\ boss'[1].health = 0
  /\ (playerArrows' # playerArrows) =>
       \/ C25_MegaTick
       \/ playerArrows' = <<>> /\ screen' = "countdown"

\* the player of a mega-boss level stays at its start x, and there are no
\* arrows and no arrow cooldown on any other level
C25_Still ==
  /\ IsMega(level) => player.x = Px(PLAYER_START_X)
  /\ ~IsMega(level) => (playerArrows = <<>> /\ arrowCooldown = 0)

C26_Order(ph) == IF ph = "still" THEN 1 ELSE IF ph = "tremble" THEN 2 ELSE 3

\* a tick of the defeat cinematic: the timer advances by the tick's dt; the
\* phases of bossFreeze come in order, none skipped; bossFreeze switches to
\* bossExplode from the swell phase in the first tick where the accumulated
\* dt has reached 675 (850 for the mega boss), bossExplode to victory in the
\* first tick where its own accumulated dt has reached 350 (430), and the
\* accumulated dt at a switch is less than one maximal dt past the duration
C26_Tick ==
  (calc.fn = "cinematic" /\ calc' # calc) =>
    LET total == IF calc.lvl >= 3 THEN 850 ELSE 675
        duration == IF calc.lvl >= 3 THEN 430 ELSE 350
    IN  /\ calc'.at = calc.t + calc'.dt
        /\ calc'.dt \in 1..DT_CAP
        /\ calc.screen = "bossFreeze" =>
             /\ C26_Order(calc'.phase) - C26_Order(calc.phase) \in {0, 1}
             /\ calc.t < total
             /\ (calc'.screen = "bossExplode") <=> (calc'.at >= total)
             /\ (calc'.screen = "bossExplode") =>
                  (calc'.at < total + DT_CAP /\ calc'.phase = "swell" /\ calc'.t = 0)
             /\ calc'.screen \in {"bossFreeze", "bossExplode"}
        /\ calc.screen = "bossExplode" =>
             /\ calc.t < duration
             /\ (calc'.screen = "victory") <=> (calc'.at >= duration)
             /\ (calc'.screen = "victory") => calc'.at < duration + DT_CAP
             /\ calc'.screen \in {"bossExplode", "victory"}

\* every duration of the mega boss is longer than the regular boss's
C26_Longer ==
  /\ StillDuration(3) > StillDuration(2)
  /\ TrembleDuration(3) > TrembleDuration(2)
  /\ SwellDuration(3) > SwellDuration(2)
  /\ ExplodeDuration(3) > ExplodeDuration(2)
  /\ \A l \in {2, 3} :
       FreezeTotal(l) = StillDuration(l) + TrembleDuration(l) + SwellDuration(l)

\* C26: the defeat cinematic is timed by accumulated dt, not by tick count:
\* bossFreeze passes through still, tremble, swell in that order and
\* switches to bossExplode in the first tick where the accumulated dt
\* reaches the sum of the three phase durations (675 regular, 850 mega),
\* bossExplode ends in the first tick where its own accumulated dt reaches
\* its duration (350 regular, 430 mega), so for any split of time into
\* ticks the accumulated dt at each switch lies between the duration and
\* the duration plus one maximal dt, and every mega duration is longer than
\* the regular one.
C26_Cinematic == [][C26_Tick /\ C26_Longer]_vars

\* the mega boss's explosion has ended with a tick that overshot its
\* duration after ticks of different dt
C26_Witness ==
  /\ calc.fn = "cinematic"
  /\ calc.lvl >= 3
  /\ calc.screen = "victory"
  /\ calc.at > 430
  /\ calc.dt < DT_CAP

\* ------------------------------------------------------------------------
\* C27
\* ------------------------------------------------------------------------
\* the boss is at full health, a finger's breadth from the right edge
C27_FreshBoss(b, lvl, w) ==
  /\ b.health = b.maxHealth
  /\ b.health = (IF lvl >= 3 THEN MEGA_BOSS_HP ELSE 1)
  /\ b.x = Px(w - 80)

C27_Step ==
  \* playing -> bossIntro, with the 3200 ms timer set and no boss
  /\ (mounted /\ screen' = "bossIntro" /\ screen # "bossIntro") =>
       /\ screen = "playing"
       /\ Cfg(level).hasBoss
       /\ AllPillarsPassed(pillars')
       /\ boss' = <<>>
       /\ bossIntroTimers' = <<[delay |-> 3200]>>
  \* during the announcement the simulation is frozen
  /\ (mounted' /\ screen = "bossIntro" /\ screen' = "bossIntro") =>
       UNCHANGED <<simVars, score, level, hasFlapped, countdown, countdownTimer>>
  \* bossIntro -> countdown, by the timer only
  /\ (mounted' /\ screen = "bossIntro" /\ screen' # "bossIntro") =>
       /\ bossIntroTimers = <<[delay |-> 3200]>>
       /\ bossIntroTimers' = <<>>
       /\ screen' = "countdown"
       /\ uiScreen' = "countdown"
       /\ countdown' = 3
       /\ countdownTimer' = 0
       /\ ~hasFlapped'
       /\ Len(boss') = 1
       /\ C27_FreshBoss(boss'[1], level, canvasSize.w)
       /\ player' = [x |-> player.x, y |-> "mid", vy |-> "rest"]
       /\ UNCHANGED <<pillars, hearts, projectiles, score, level>>
  \* a boss appears only together with a fresh countdown
  /\ (boss = <<>> /\ boss' # <<>>) =>
       (screen' = "countdown" /\ countdown' = 3 /\ countdownTimer' = 0 /\ ~hasFlapped')
  \* a projectile is fired only by a boss, in a tick of playing after a flap
  /\ (Len(projectiles') > Len(projectiles)) =>
       (boss # <<>> /\ screen = "playing" /\ hasFlapped)

\* no boss during the announcement, and no projectile without a boss
C27_NoBossYet ==
  /\ (screen = "bossIntro") => (boss = <<>> /\ projectiles = <<>>)
  /\ (boss = <<>>) => projectiles = <<>>

\* C27: on a boss level the approach to the fight is playing -> bossIntro ->
\* countdown -> playing: when the last pillar is passed the screen becomes
\* bossIntro and the simulation is frozen; the 3200 ms timer then spawns the
\* boss with full health, resets the player's vertical velocity and height,
\* clears the has-flapped flag and enters a fresh 3-2-1 countdown; no boss
\* exists and no projectile is fired before that countdown has started.
C27_Approach == [][C27_Step /\ C27_NoBossYet']_vars

\* the countdown entered when the announcement timer has fired: the boss is
\* there at full health, every pillar is behind the player
C27_Witness ==
  /\ mounted
  /\ screen = "countdown"
  /\ countdown = 3
  /\ countdownTimer = 0
  /\ ~hasFlapped
  /\ ~diedDuringBoss
  /\ Len(boss) = 1
  /\ C27_FreshBoss(boss[1], level, canvasSize.w)
  /\ player.vy = "rest"
  /\ AllPillarsPassed(pillars)
  /\ bossIntroTimers = <<>>

\* ------------------------------------------------------------------------
\* C28
\* ------------------------------------------------------------------------
\* a physics tick (playing, after the first flap)
C28_Tick == \E e \in ElapsedSet : TickPlaying(e)

\* the step left the player clamped at the ceiling
C28_Clamped == player'.y = "ceil"

\* a projectile is in reach of the player after the tick
C28_Shot ==
  /\ boss # <<>>
  /\ diedDuringBoss'
  /\ \E i \in 1..Len(projectiles') : ProjectileInReach(player'.x, projectiles'[i])

\* the statement as written: a tick that clamps the player leaves the game
\* in playing
C28_Original == [][(C28_Clamped => screen' = "playing") \/ ~C28_Tick]_vars

C28_Effect ==
  \* the clamp leaves the player at rest at y = 0 and ends nothing itself:
  \* the tick goes on to the boss logic and the level-complete test
  /\ C28_Clamped =>
       /\ player'.vy = "rest"
       /\ screen' \in {"playing", "bossIntro", "bossFreeze", "levelComplete", "gameOver"}
       /\ (screen' = "gameOver") => C28_Shot
       /\ (screen' = "bossFreeze") => boss # <<>>
       /\ (screen' \in {"bossIntro", "levelComplete"}) => AllPillarsPassed(pillars')
  \* a tick that does not end in gameOver leaves the player inside the canvas
  /\ (screen' # "gameOver") => player'.y \in {"mid", "ceil"}
  \* death is by pillar, by projectile, or below the canvas
  /\ (screen' = "gameOver") =>
       \/ PillarOverlap(pillars')
       \/ C28_Shot
       \/ player'.y = "below"
  \* inside the canvas and clear of pillars and projectiles nothing is lethal
  /\ (player'.y = "mid" /\ ~PillarOverlap(pillars') /\ boss = <<>>) =>
       screen' # "gameOver"

\* every physics tick has the effect
C28_Step == C28_Effect \/ ~C28_Tick

\* C28: touching the ceiling is never lethal: a tick without a pillar
\* collision in which y would become negative sets y to 0 and the vertical
\* velocity to 0 and goes on (the game stays in playing unless the same tick
\* completes the level, announces or defeats the boss, or a projectile hits);
\* after every physics tick that does not end in gameOver the player's y is
\* >= 0; floor death happens only when the player is fully below the canvas.
C28_Ceiling == [][C28_Step]_vars

\* the player rests at the ceiling and the game goes on
C28_Witness ==
  /\ mounted
  /\ screen = "playing"
  /\ hasFlapped
  /\ player.y = "ceil"
  /\ player.vy = "rest"
  /\ \E i \in 1..Len(pillars) : ~pillars[i].passed

\* ------------------------------------------------------------------------
\* C29
\* ------------------------------------------------------------------------
\* a pillar has been scrolled by at least one tick
C29_Applied == calc.fn = "pass" /\ calc.ticks > 0

\* C29: the time factor dt of a tick lies between 0 and the device cap (6 on
\* desktop, 3 on coarse-pointer devices) whatever time elapsed, so the scroll
\* of a tick is at most speed * cap, which is less than the pillar width plus
\* the width of the inset hitbox; a pillar that was entirely right of the
\* inset hitbox is never marked passed without a tick in which it overlaps
\* the hitbox horizontally and the collision test is evaluated.
C29_NoTunnelling ==
  C29_Applied =>
    /\ calc.dt >= 0
    /\ calc.dt <= (IF calc.mobile THEN 3 ELSE 6) * 100
    /\ calc.scroll <= Cfg(calc.lvl).speed * (IF calc.mobile THEN 3 ELSE 6) * 100
    /\ calc.scroll < Fine(PILLAR_WIDTH + PLAYER_SIZE - 2 * HITBOX_INSET)
    /\ calc.passed => calc.overlapped

\* the fastest level on a desktop: a tick at the cap marks the pillar passed
C29_Witness ==
  /\ C29_Applied
  /\ calc.lvl = NumLevels - 1
  /\ ~calc.mobile
  /\ calc.dt = 600
  /\ calc.scroll = Fine(12)
  /\ calc.passed
  /\ calc.overlapped

\* ------------------------------------------------------------------------
\* C30
\* ------------------------------------------------------------------------
\* what a step leaves alone when it changes the player's height and the
\* clock only
C30_Effect ==
  /\ player'.x = player.x
  /\ player'.vy = player.vy
  /\ player'.y = "mid"
  /\ screen' = "playing"
  /\ uiScreen' = uiScreen
  /\ ~hasFlapped'
  /\ UNCHANGED <<pillars, hearts, boss, projectiles, playerArrows, arrowCooldown,
                 scoreVars, level, countdown, countdownTimer, diedDuringBoss,
                 explodeTimer, uiVars, hsTimers, bossIntroTimers, bonusTimers,
                 mounted, canvasSize>>

\* a tick taken on the playing screen before the first flap
C30_IdleTick == screen = "playing" /\ ~hasFlapped /\ Tick

\* C30: while the screen is playing and the has-flapped flag is false, a tick
\* changes only the player's y (the idle bob) and the frame counter: pillars,
\* hearts, the player's velocity and x, the score, the boss and its
\* projectiles are unchanged, and no death, level-complete or boss transition
\* happens.
C30_Idle == [][C30_Effect \/ ~C30_IdleTick]_vars

\* a boss fight before the first flap, after at least one tick
C30_Witness ==
  /\ mounted
  /\ screen = "playing"
  /\ ~hasFlapped
  /\ sincePlay > 0
  /\ boss # <<>>
  /\ projectiles = <<>>
  /\ player.y = "mid"

\* ------------------------------------------------------------------------
\* C31
\* ------------------------------------------------------------------------
C31_Applied == calc.fn = "hearts" /\ calc.done

\* heart k lies at the gap centre of pillar i
C31_AtCentre(k, i) ==
  /\ calc.hearts[k].x = calc.pillars[i].x + 26
  /\ calc.hearts[k].y = calc.pillars[i].gapY
  /\ calc.hearts[k].collected = FALSE

\* C31: generateHearts(pillars, count) returns exactly min(count, number of
\* pillars) hearts, each at the gap centre (x = pillar.x + width/2,
\* y = pillar.gapY) of a distinct pillar, in increasing pillar order, all
\* with collected = false.
C31_Hearts ==
  C31_Applied =>
    /\ Len(calc.hearts) = Min(calc.count, Len(calc.pillars))
    /\ \E at \in [1..Len(calc.hearts) -> 1..Len(calc.pillars)] :
         /\ \A k \in 1..Len(calc.hearts) : C31_AtCentre(k, at[k])
         /\ \A k \in 1..(Len(calc.hearts) - 1) : at[k] < at[k + 1]

\* two hearts on four pillars, the shuffle having put the last pillar first
C31_Witness ==
  /\ C31_Applied
  /\ Len(calc.pillars) = 4
  /\ calc.count = 2
  /\ Len(calc.hearts) = 2
  /\ calc.draws[3] = 0
  /\ C31_AtCentre(2, 4)

\* ------------------------------------------------------------------------
\* C32
\* ------------------------------------------------------------------------
C32_Applied == calc.fn = "pillars" /\ calc.done

\* C32: generatePillars returns exactly the configured number of pillars,
\* none marked passed, at a fixed horizontal spacing (250), and the first
\* pillar starts past the right edge of the visible canvas for every canvas
\* width the game can have.
C32_Pillars ==
  C32_Applied =>
    /\ Len(calc.pillars) = LEVELS[calc.lvl + 1].pillarCount
    /\ \A i \in 1..Len(calc.pillars) : ~calc.pillars[i].passed
    /\ \A i \in 1..(Len(calc.pillars) - 1) : calc.pillars[i + 1].x - calc.pillars[i].x = 250
    /\ calc.pillars[1].x >= calc.w

\* ------------------------------------------------------------------------
\* C33
\* ------------------------------------------------------------------------
C33_Step ==
  \* after the step the best score is not below the running score
  /\ bestScore' >= score'
  \* a gain is compared in the step that makes it
  /\ (score' > score) => bestScore' = (IF score' > bestScore THEN score' ELSE bestScore)
  \* the best score never goes down
  /\ bestScore' >= bestScore
  \* the running score goes down only by a retry, which keeps the best score
  /\ (mounted /\ score' < score) =>
       /\ screen = "gameOver"
       /\ screen' = "countdown"
       /\ bestScore' = bestScore

\* C33: at the end of every tick and after every action the best score is
\* greater than or equal to the running score: every score increase (pillar
\* pass, heart pickup) is followed in the same tick by the best-score
\* comparison, and a retry lowers the running score but never the best score.
C33_BestCovers == (bestScore >= score) /\ [][C33_Step]_vars

\* after a retry that took points away: the best score stays above
C33_Witness ==
  /\ mounted
  /\ screen = "countdown"
  /\ level = 0
  /\ score = 0
  /\ bestScore > 1
  /\ sessionBestScore = bestScore
  /\ maxReached = bestScore

\* ------------------------------------------------------------------------
\* C34
\* ------------------------------------------------------------------------
\* the attempt is not a boss respawn: the level's hearts were generated
C34_Normal == hearts # <<>>

C34_Passed == Cardinality({i \in 1..Len(pillars) : pillars[i].passed})

C34_Collected == Cardinality({j \in 1..Len(hearts) : hearts[j].collected})

\* C34: during a normal (non-boss-respawn) attempt of a level the running
\* score equals the level-start baseline plus the number of pillars marked
\* passed plus the level's heartPoints times the number of hearts marked
\* collected.
C34_ScoreSum ==
  C34_Normal =>
    score = levelStartScore + C34_Passed + LEVELS[level + 1].heartPoints * C34_Collected

\* the second level with a carried baseline, a pillar passed and its heart
\* collected
C34_Witness ==
  /\ mounted
  /\ C34_Normal
  /\ level = 1
  /\ levelStartScore > 0
  /\ C34_Passed >= 1
  /\ C34_Collected >= 1
  /\ screen = "playing"

\* ------------------------------------------------------------------------
\* C35
\* ------------------------------------------------------------------------
\* a boss encounter: from the announcement to victory or gameOver
C35_Encounter ==
  /\ mounted
  /\ \/ screen \in {"bossIntro", "bossFreeze", "bossExplode"}
     \/ boss # <<>>
     \/ screen = "victory" /\ LEVELS[level + 1].hasBoss

C35_Step ==
  \* the tick that announces the boss records the score as the baseline
  /\ (mounted /\ screen' = "bossIntro" /\ screen # "bossIntro") => bossStartScore' = score'
  \* no step of the encounter changes the score or the baseline, the retry
  \* after a death in the fight included
  /\ (C35_Encounter /\ mounted') => (score' = score /\ bossStartScore' = bossStartScore)
  /\ (mounted /\ screen = "gameOver" /\ diedDuringBoss /\ screen' = "countdown") =>
       (score' = score /\ boss' # <<>>)

\* the score of the encounter is the baseline
C35_Baseline == C35_Encounter => score = bossStartScore

\* C35: no points can be gained during a boss encounter: from the tick that
\* triggers the boss intro until the encounter ends in victory or gameOver
\* the running score stays equal to the boss-encounter baseline, so the score
\* shown at victory equals the baseline and a boss retry takes no points away.
C35_NoGain == [][C35_Step /\ C35_Baseline']_vars

\* victory over a boss with hearts in the score
C35_Witness ==
  /\ mounted
  /\ screen = "victory"
  /\ LEVELS[level + 1].hasBoss
  /\ score = bossStartScore
  /\ score > levelStartScore + LEVELS[level + 1].pillarCount

\* ------------------------------------------------------------------------
\* C36
\* ------------------------------------------------------------------------
C36_Step ==
  \* a tick of the fight that ends in gameOver leaves the boss, its health,
  \* the arrows and the cinematic timer alone
  /\ (mounted /\ screen = "playing" /\ boss # <<>> /\ screen' = "gameOver") =>
       /\ diedDuringBoss'
       /\ uiScreen' = "gameOver"
       /\ Len(boss') = 1
       /\ boss'[1].health = boss[1].health
       /\ boss'[1].health > 0
       /\ boss'[1].x = boss[1].x
       /\ playerArrows' = playerArrows
       /\ arrowCooldown' = arrowCooldown
       /\ explodeTimer' = explodeTimer
  \* a tick that defeats the boss registers no death
  /\ (mounted /\ screen = "playing" /\ screen' = "bossFreeze") =>
       (diedDuringBoss' = diedDuringBoss /\ ~diedDuringBoss')

C37_Waiting == mounted /\ boss # <<>> /\ ~hasFlapped

C37_Step ==
  (C37_Waiting /\ mounted') =>
    /\ boss' = boss
    /\ projectiles' = projectiles
    /\ playerArrows' = playerArrows
    /\ arrowCooldown' = arrowCooldown
    /\ player'.x = player.x
    /\ screen' \in {"countdown", "playing"}
    /\ ~diedDuringBoss'
    /\ explodeTimer' = explodeTimer
    /\ score' = score

\* before the first flap nothing has been fired
C37_Inert ==
  C37_Waiting =>
    /\ screen \in {"countdown", "playing"}
    /\ projectiles = <<>>
    /\ playerArrows = <<>>
    /\ boss[1].health = boss[1].maxHealth
    /\ boss[1].shootCooldown =
         Px(IF level >= 3 THEN MEGA_BOSS_SHOOT_INTERVAL ELSE BOSS_SHOOT_INTERVAL)

\* C37: after the pre-boss countdown (or a boss-respawn countdown) the boss
\* stays inert until the player's first flap: while has-flapped is false the
\* boss, its position and shoot cooldown, the projectile and arrow lists and
\* the player's x are unchanged, so the player can neither be hit nor win
\* before flapping.
C37_BossInert == [][C37_Step /\ C37_Inert']_vars

\* the fight after a boss respawn, the countdown over, the grace period
\* running, no flap yet
C37_Witness ==
  /\ C37_Waiting
  /\ screen = "playing"
  /\ sincePlay > 0
  /\ hearts = <<>>
  /\ boss[1].health = boss[1].maxHealth

\* ------------------------------------------------------------------------
\* C38
\* ------------------------------------------------------------------------
\* the screens of a level without boss and of a level with one
C38_Screens ==
  /\ (screen = "levelComplete") => ~LEVELS[level + 1].hasBoss
  /\ (screen \in {"bossIntro", "bossFreeze", "bossExplode"}) => LEVELS[level + 1].hasBoss
  /\ (screen = "levelComplete") => level < NumLevels - 1
  /\ LEVELS[NumLevels].hasBoss

C38_Step ==
  \* the next-level action always finds a next level
  /\ (mounted /\ screen = "levelComplete" /\ screen' # "levelComplete") =>
       /\ level + 1 < NumLevels
       /\ level' = level + 1
       /\ screen' = "countdown"
  \* victory is never entered from levelComplete
  /\ (mounted /\ screen' = "victory" /\ screen # "victory") => screen = "bossExplode"

\* C38: levelComplete is entered only on levels with hasBoss = false, and
\* bossIntro, bossFreeze and bossExplode only on levels with hasBoss = true;
\* the last level of the catalog has a boss, so the next-level action is
\* never invoked on the last level and its branch to victory is never taken.
C38_BossLevels == [][C38_Step /\ C38_Screens']_vars

\* the last level without boss is complete
C38_Witness ==
  /\ mounted
  /\ screen = "levelComplete"
  /\ uiScreen = "levelComplete"
  /\ ~LEVELS[level + 1].hasBoss
  /\ LEVELS[level + 2].hasBoss

\* ------------------------------------------------------------------------
\* C39
\* ------------------------------------------------------------------------
\* at most one timer of each kind, each on the screen that set it
C39_Pending ==
  /\ Len(hsTimers) <= 1
  /\ Len(bossIntroTimers) <= 1
  /\ (hsTimers # <<>>) =>
       (mounted /\ highScoreAnimating /\ screen \in {"gameOver", "levelComplete", "victory"})
  /\ (bossIntroTimers # <<>>) => (mounted /\ screen = "bossIntro" /\ boss = <<>>)
  /\ ~(hsTimers # <<>> /\ bossIntroTimers # <<>>)

C39_Step ==
  \* a timer is set only when none of its kind is outstanding
  /\ (Len(hsTimers') > Len(hsTimers)) => hsTimers = <<>>
  /\ (Len(bossIntroTimers') > Len(bossIntroTimers)) => bossIntroTimers = <<>>
  \* the boss-intro callback runs on bossIntro only
  /\ (boss = <<>> /\ boss' # <<>> /\ bossIntroTimers # <<>>) =>
       (screen = "bossIntro" /\ bossIntroTimers' = <<>>)
  \* initLevel leaves no boss-intro timer behind
  /\ (screen' = "countdown" /\ screen # "countdown") => bossIntroTimers' = <<>>
  \* the high-score callback takes its timer with it
  /\ (highScoreAnimating /\ ~highScoreAnimating') => hsTimers' = <<>>

\* C39: at any moment at most one high-score-overlay timer and at most one
\* boss-intro timer is pending: a timer handle is never overwritten while an
\* earlier timer of the same kind is outstanding, and a boss-intro timer
\* never fires on a screen other than bossIntro, so no timer callback can run
\* twice or be left uncancellable.
C39_OneTimer == [][C39_Step /\ C39_Pending']_vars

\* the boss is announced after a high-score overlay has come and gone: one
\* boss-intro timer pending, the high-score flag raised again
C39_Witness ==
  /\ mounted
  /\ screen = "bossIntro"
  /\ Len(bossIntroTimers) = 1
  /\ hsTimers = <<>>
  /\ celebrations # "none"
  /\ newHighScore

====
